---- MODULE Spec2Model ----
(***************************************************************************)
(* Halal food finder: the resilience pipeline.                             *)
(*                                                                         *)
(*   ResilienceProxy          src/src/backend/main.mo (current actor) and  *)
(*                            the earlier trapping actor kept in           *)
(*                            src/src/frontend/src/App.tsx:57-251          *)
(*   ClientRetryOrchestrator  src/src/frontend/src/hooks/useQueries.ts     *)
(*   GeoAcquisition           src/unnamed/part_006 (SearchSection)         *)
(*                                                                         *)
(* Text is modelled as a sequence of tokens: "#" is \o, startsWith is a    *)
(* prefix test on the token sequence.  The backend clock counts whole      *)
(* minutes (Time.now() is in nanoseconds in the source).                   *)
(***************************************************************************)
EXTENDS Integers, Sequences, FiniteSets, TLC

VARIABLES
    \* ---- ResilienceProxy (backend actor) ----
    legacy,             \* TRUE: the trapping actor of App.tsx:57-251 is deployed
    now,                \* Time.now(), in minutes
    apiCache,           \* Map<Text, CacheEntry>
    errorLog,           \* Map<Nat, ErrorEntry>
    logCounter,
    consecutiveErrors,
    requestStats,
    call,               \* the proxy calls in flight, one record per caller slot
    upstreamIssued,     \* history: outcalls issued in the behaviour
    foursquareApiKey,   \* ?Text: << >> for null, <<key>> for ?key
    \* ---- ClientRetryOrchestrator (useRestaurantSearch hook) ----
    safeMode, isRetrying, retryCount, isAuthError,
    exec,               \* the executeWithRetry calls in flight
    toasts,             \* set of notification kinds shown so far
    execStarted,        \* history: executeWithRetry calls started so far
    \* ---- GeoAcquisition (SearchSection component) ----
    secureContext,      \* window.isSecureContext
    geoSupported,       \* 'geolocation' in navigator
    geoState,
    gpsTimeoutRef,      \* <<>> or <<timer>>
    fallbackExecutedRef,
    inFlightRef,
    geoWatch,           \* the state of useGeolocationWatch: status, error,
                        \* canRetry, position
    watchIdRef,         \* the watchPosition id the hook holds, 0 for null
    pending,            \* outstanding browser callbacks, timers and lookups
    geoToast,           \* the last toast SearchSection showed
    attempt,            \* history: number of the current acquisition attempt (a
                        \* click on "Detect My Location" or "Try Again" opens one)
    ipLookups,          \* history: IP lookups issued in the current attempt
    searches,           \* history: onLocationSearch calls of the current attempt
    watches,            \* the watchPosition ids the browser has subscribed
    watchCount,         \* watchPosition calls so far; the next id is watchCount + 1
    lastSearchCoordsRef,
    lastExecutionTime,  \* of searchRateLimiterRef
    isFirstTrackingFixRef,
    dateNow,            \* Date.now(), in ms after an origin
    handed,             \* history: <<>> or the last call of onLocationSearch
    trackTimes,         \* history: Date.now() at the last two tracking-triggered
                        \* searches since the filter state was last reset
    \* ---- merging and ordering places (placesMerge.ts)
    sources,            \* the batches handed to mergeAndDeduplicateRestaurants
    results,            \* << >> or <<the list it returned>>
    sorted,             \* << >> or <<the list sortByDistance made of results>>
    \* ---- useRestaurantSearch (useQueries.ts)
    restaurants,        \* the list handed to the results view
    isLoading,
    hookError,          \* error: << >> for null, or <<message>>
    running,            \* the search under way: its tiers, accumulator and
                        \* the two provider queries of the current tier
    issued,             \* history: backend calls issued since the last search
                        \* that reached the backend began
    returned,           \* history: << >> or what searchWithRadiusExpansion
                        \* returned to the last search, with its tiers
    started,            \* history: searches that have reached the backend
    invocations,        \* the calls of searchByLocation and searchByCity that
                        \* may overlap, by the order they were made in
    \* ---- validateCoordinates (lib/coordinates.ts)
    checked             \* the arguments of validateCoordinates and what its
                        \* calls on them returned

proxyVars == <<legacy, now, apiCache, errorLog, logCounter, consecutiveErrors,
               requestStats, call, upstreamIssued, foursquareApiKey>>
retryVars == <<safeMode, isRetrying, retryCount, isAuthError, exec, toasts, execStarted>>
trackVars == <<watches, watchCount, lastSearchCoordsRef, lastExecutionTime,
               isFirstTrackingFixRef, dateNow, trackTimes>>
geoVars   == <<secureContext, geoSupported, geoState, gpsTimeoutRef,
               fallbackExecutedRef, inFlightRef, geoWatch, watchIdRef, pending,
               geoToast, attempt, ipLookups, searches, handed, trackVars>>
placeVars == <<sources, results, sorted>>
hookVars  == <<restaurants, isLoading, hookError, running, issued, returned, started>>
overlapVars == <<invocations>>
checkVars  == <<checked>>
searchVars == <<placeVars, hookVars, overlapVars, checkVars>>
vars      == <<proxyVars, retryVars, geoVars, searchVars>>

----------------------------------------------------------------------------
(* Bounds of the model *)

NumCalls    == 1      \* proxy calls that may be in flight at once
MaxTime     == 5      \* the clock stops advancing here
MaxRequests == 3      \* upstream attempts issued in one behaviour
NumExecs    == 1      \* executeWithRetry calls that may be in flight at once
MaxExecs    == 2      \* executeWithRetry calls started in one behaviour
MaxAttempts == 2      \* acquisition attempts (detect / retry) in one behaviour
MaxWatches  == 2      \* watchPosition calls in one behaviour
MaxTicks    == 3      \* advances of Date.now() in one behaviour
MaxPlaces   == 3      \* records in the batches handed to the merge
MaxSearches == 1      \* searches that reach the backend in one behaviour
MaxRadiusSteps == 140 \* initial radii tried, in steps of 250 m
MaxOverlap  == 2      \* calls of the search functions in one behaviour

----------------------------------------------------------------------------
(* Text helpers *)

StartsWith(text, prefix) ==
    /\ Len(text) >= Len(prefix)
    /\ SubSeq(text, 1, Len(prefix)) = prefix

Digits == <<"0", "1", "2", "3", "4", "5", "6", "7", "8", "9">>

ToText(n) == Digits[n + 1]

ErrorMarker == <<"Error:">>

----------------------------------------------------------------------------
(* ResilienceProxy *)

retryLimit == 2

maxConsecutiveErrors == 10

cacheValidity == 5

maxLogEntries == 100

LogRetention == 24 * 60

Callers  == 1 .. NumCalls
Methods  == {"GET", "POST"}
Urls     == {"u1"}
Bodies   == {"q1"}
Payloads == {<<"json1">>, <<"json2">>}
UpstreamErrors == {"timeout"}

NoError == [timestamp |-> -1, message |-> <<>>]

CacheKey(method, url, body) ==
    IF method = "GET" THEN <<"GET:", url>>
                      ELSE <<"POST:", url, ":", body>>

\* an entry exactly as old as the validity period still counts as fresh
isCacheValid_Inclusive(entry) == now - entry.timestamp <= cacheValidity

isCacheValid(entry) == now - entry.timestamp < cacheValidity

CacheHit(key) == key \in DOMAIN apiCache /\ isCacheValid(apiCache[key])

\* an update that stores the sentinel text in place of the response
updateCache_StoresSentinel(cache, key, data) ==
    [k \in DOMAIN cache \cup {key} |->
        IF k = key THEN [data |-> ErrorMarker \o data, timestamp |-> now] ELSE cache[k]]

updateCache(cache, key, data) ==
    [k \in DOMAIN cache \cup {key} |->
        IF k = key THEN [data |-> data, timestamp |-> now] ELSE cache[k]]

\* clearErrorLog: keep the entries younger than 24 hours
clearErrorLog(log) ==
    [id \in {i \in DOMAIN log : now - log[i].timestamp < LogRetention} |-> log[id]]

\* logError: lazy eviction, then append under the next id
logError(log, counter, message) ==
    LET kept == clearErrorLog(log)
        ids  == DOMAIN kept
        oldest == IF ids = {} THEN 0 ELSE CHOOSE i \in ids : \A j \in ids : i <= j
        evict == /\ counter >= maxLogEntries
                 /\ ids # {}
                 /\ \E j \in ids : kept[j].timestamp < kept[oldest].timestamp
        after == IF evict THEN [id \in ids \ {oldest} |-> kept[id]] ELSE kept
    IN  [id \in DOMAIN after \cup {counter} |->
            IF id = counter THEN [timestamp |-> now, message |-> message]
                            ELSE after[id]]

AttemptMessage(method, attempts, emsg) ==
    IF method = "GET"
    THEN <<"HTTP GET attempt ", ToText(attempts), " failed: ", emsg>>
    ELSE <<"POST attempt ", ToText(attempts), " failed: ", emsg>>

\* the switch after the retry loop of the current actor
SentinelResult(method, lastError) ==
    IF lastError # NoError
    THEN <<"Error:", " ">> \o lastError.message
    ELSE IF method = "GET"
    THEN <<"Error:", " ",
           "Unexpected error in proxyExternalApiGet: GET request failed after retries">>
    ELSE <<"Error:", " ", "post failed after retries">>

IdleCall == [pc |-> "idle", method |-> "GET", url |-> "u1", body |-> "q1",
             attempts |-> 0, lastError |-> NoError, result |-> <<>>,
             upstream |-> 0, hit |-> FALSE]

\* a call slot is free before its first call and after its reply or reject
Free(c) == call[c].pc \in {"idle", "returned", "trapped"}

\* proxyExternalApiGet / proxyExternalApiPost up to the first await; a new call
\* takes the lowest free slot
ProxyCall(c, method, url, body) ==
    /\ Free(c)
    /\ \A d \in Callers : d < c => ~Free(d)
    /\ LET key == CacheKey(method, url, body)
           base == [IdleCall EXCEPT !.method = method, !.url = url, !.body = body]
       IN IF CacheHit(key)
          THEN /\ call' = [call EXCEPT ![c] =
                      [base EXCEPT !.pc = "returned", !.result = apiCache[key].data,
                                   !.hit = TRUE]]
               /\ UNCHANGED upstreamIssued
          ELSE /\ upstreamIssued < MaxRequests
               /\ call' = [call EXCEPT ![c] =
                      [base EXCEPT !.pc = "awaiting", !.upstream = 1]]
               /\ upstreamIssued' = upstreamIssued + 1
    /\ UNCHANGED <<legacy, now, apiCache, errorLog, logCounter, consecutiveErrors,
                   requestStats>>
    /\ UNCHANGED <<foursquareApiKey, retryVars, geoVars, searchVars>>

\* the try branch: the outcall answered
UpstreamSuccess(c, response) ==
    /\ call[c].pc = "awaiting"
    /\ apiCache' = updateCache(apiCache,
                       CacheKey(call[c].method, call[c].url, call[c].body), response)
    /\ consecutiveErrors' = 0
    /\ requestStats' =
          IF legacy THEN requestStats
          ELSE [requestStats EXCEPT !.totalRequests = @ + 1,
                                    !.successfulRequests = @ + 1]
    /\ call' = [call EXCEPT ![c].pc = "returned", ![c].result = response]
    /\ UNCHANGED <<legacy, now, errorLog, logCounter, upstreamIssued>>
    /\ UNCHANGED <<foursquareApiKey, retryVars, geoVars, searchVars>>

\* a catch branch that lets the consecutive-error counter grow
CatchEffects_NoReset(c, errorEntry) ==
    /\ errorLog' = logError(errorLog, logCounter, errorEntry.message)
    /\ logCounter' = logCounter + 1
    /\ consecutiveErrors' = consecutiveErrors + 1
    /\ requestStats' =
          IF legacy THEN requestStats
          ELSE [requestStats EXCEPT !.totalRequests = @ + 1,
                                    !.failedRequests = @ + 1,
                                    !.lastErroredRequest = errorEntry]

\* the state written by one pass through the catch branch
CatchEffects(c, errorEntry) ==
    /\ errorLog' = logError(errorLog, logCounter, errorEntry.message)
    /\ logCounter' = logCounter + 1
    /\ consecutiveErrors' =
          IF consecutiveErrors + 1 >= maxConsecutiveErrors THEN 0
          ELSE consecutiveErrors + 1
    /\ requestStats' =
          IF legacy THEN requestStats
          ELSE [requestStats EXCEPT !.totalRequests = @ + 1,
                                    !.failedRequests = @ + 1,
                                    !.lastErroredRequest = errorEntry]

\* a loop that gives up one attempt early
RetryAgain_Strict(attempts) == attempts < retryLimit

\* the loop test after a failed attempt
RetryAgain(attempts) == attempts <= retryLimit

\* the catch branch, the loop test, and what follows the loop
UpstreamFailure(c, emsg) ==
    /\ call[c].pc = "awaiting"
    /\ LET errorEntry == [timestamp |-> now,
                          message |-> AttemptMessage(call[c].method, call[c].attempts, emsg)]
           attempts1 == call[c].attempts + 1
       IN IF RetryAgain(attempts1)
          THEN \* next iteration: a further outcall is issued
               /\ upstreamIssued < MaxRequests
               /\ CatchEffects(c, errorEntry)
               /\ upstreamIssued' = upstreamIssued + 1
               /\ call' = [call EXCEPT ![c].attempts = attempts1,
                                       ![c].lastError = errorEntry,
                                       ![c].upstream = @ + 1]
          ELSE IF legacy
          THEN \* Runtime.trap: the state changes of this callback are rolled back
               /\ call' = [call EXCEPT ![c].pc = "trapped",
                                       ![c].attempts = attempts1,
                                       ![c].lastError = errorEntry]
               /\ UNCHANGED <<errorLog, logCounter, consecutiveErrors, requestStats,
                              upstreamIssued>>
          ELSE /\ CatchEffects(c, errorEntry)
               /\ call' = [call EXCEPT ![c].pc = "returned",
                                       ![c].attempts = attempts1,
                                       ![c].lastError = errorEntry,
                                       ![c].result = SentinelResult(call[c].method, errorEntry)]
               /\ UNCHANGED upstreamIssued
    /\ UNCHANGED <<legacy, now, apiCache>>
    /\ UNCHANGED <<foursquareApiKey, retryVars, geoVars, searchVars>>

\* the system clock advances
Tick ==
    /\ now < MaxTime
    /\ now' = now + 1
    /\ UNCHANGED <<legacy, apiCache, errorLog, logCounter, consecutiveErrors,
                   requestStats, call, upstreamIssued>>
    /\ UNCHANGED <<foursquareApiKey, retryVars, geoVars, searchVars>>

\* ---- operations of the current actor beside the proxy calls

Principals == {"admin", "guest"}

\* AccessControl.hasPermission(accessControlState, caller, #admin): the role gate
\* is outside the repository; it allows the principals that hold the admin role
hasPermission(caller, role) == role = "admin" => caller = "admin"

\* the prefixes an admin may pass to clearCachePrefix
Prefixes == {<< >>, <<"GET:">>, <<"POST:">>, <<"GET:", "u1">>, <<"u1">>}

\* a key is removed when the prefix occurs anywhere in it
KeysToRemove_Anywhere(cache, prefix) ==
    {k \in DOMAIN cache :
        \E i \in 0 .. Len(k) : StartsWith(SubSeq(k, i + 1, Len(k)), prefix)}

\* keysToRemove of clearCachePrefix: apiCache.filter(k.startsWith(#text prefix))
KeysToRemove(cache, prefix) == {k \in DOMAIN cache : StartsWith(k, prefix)}

\* clearCachePrefix; Runtime.trap leaves the state as it was
clearCachePrefix(caller, prefix) ==
    /\ IF ~hasPermission(caller, "admin")
       THEN UNCHANGED apiCache
       ELSE apiCache' = [k \in DOMAIN apiCache \ KeysToRemove(apiCache, prefix) |->
                            apiCache[k]]
    /\ UNCHANGED <<legacy, now, errorLog, logCounter, consecutiveErrors, requestStats,
                   call, upstreamIssued>>
    /\ UNCHANGED <<foursquareApiKey, retryVars, geoVars, searchVars>>

\* a clear that also starts the request counters afresh
clearApiCache_ResetsStats(caller) ==
    /\ IF ~hasPermission(caller, "admin")
       THEN UNCHANGED <<apiCache, requestStats>>
       ELSE /\ apiCache' = << >>
            /\ requestStats' = [requestStats EXCEPT !.totalRequests = 0,
                                                    !.successfulRequests = 0,
                                                    !.failedRequests = 0]
    /\ UNCHANGED <<legacy, now, errorLog, logCounter, consecutiveErrors, call,
                   upstreamIssued>>
    /\ UNCHANGED <<foursquareApiKey, retryVars, geoVars, searchVars>>

\* clearApiCache; Runtime.trap leaves the state as it was
clearApiCache(caller) ==
    /\ IF ~hasPermission(caller, "admin")
       THEN UNCHANGED apiCache
       ELSE apiCache' = << >>
    /\ UNCHANGED <<legacy, now, errorLog, logCounter, consecutiveErrors, requestStats,
                   call, upstreamIssued>>
    /\ UNCHANGED <<foursquareApiKey, retryVars, geoVars, searchVars>>

\* ping
ping ==
    /\ consecutiveErrors' =
          IF consecutiveErrors >= maxConsecutiveErrors THEN 0 ELSE consecutiveErrors
    /\ UNCHANGED <<legacy, now, apiCache, errorLog, logCounter, requestStats, call,
                   upstreamIssued>>
    /\ UNCHANGED <<foursquareApiKey, retryVars, geoVars, searchVars>>

\* ---- the stored third-party credential

ApiKeys == {<<"fsq-key-1">>, <<"fsq-key-2">>}

\* a reply of the actor: ok is FALSE when the call trapped
Reply(value) == [ok |-> TRUE, value |-> value]
Trap(message) == [ok |-> FALSE, value |-> message]

setFoursquareApiKey(caller, key) ==
    /\ IF ~hasPermission(caller, "admin")
       THEN UNCHANGED foursquareApiKey
       ELSE foursquareApiKey' = <<key>>
    /\ UNCHANGED <<legacy, now, apiCache, errorLog, logCounter, consecutiveErrors,
                   requestStats, call, upstreamIssued>>
    /\ UNCHANGED <<retryVars, geoVars, searchVars>>

clearFoursquareApiKey(caller) ==
    /\ IF ~hasPermission(caller, "admin")
       THEN UNCHANGED foursquareApiKey
       ELSE foursquareApiKey' = << >>
    /\ UNCHANGED <<legacy, now, apiCache, errorLog, logCounter, consecutiveErrors,
                   requestStats, call, upstreamIssued>>
    /\ UNCHANGED <<retryVars, geoVars, searchVars>>

\* the reply of getFoursquareApiKey: the stored ?Text
getFoursquareApiKey(caller) ==
    IF ~hasPermission(caller, "admin")
    THEN Trap(<<"Unauthorized", ": ", "Only admins", " can view Foursquare API key">>)
    ELSE Reply(foursquareApiKey)

NotConfigured ==
    <<"Error:", " ", "Foursquare API key is not configured. Please set the API key before making requests.">>

\* the reply of foursquarePlacesSearch when the outcall answers with body
foursquarePlacesSearch(body) ==
    IF foursquareApiKey = << >> THEN Reply(NotConfigured) ELSE Reply(body)

\* ---- the read-only diagnostics; each is the reply the query gives to caller

getErrorLog(caller) ==
    IF ~hasPermission(caller, "admin")
    THEN Trap(<<"Unauthorized", ": ", "Only admins", " can view error logs">>)
    ELSE Reply({<<errorLog[id].timestamp, errorLog[id].message>> : id \in DOMAIN errorLog})

getCacheContents(caller) ==
    IF ~hasPermission(caller, "admin")
    THEN Trap(<<"Unauthorized", ": ", "Only admins", " can view cache contents">>)
    ELSE Reply({<<key, apiCache[key].data, now>> : key \in DOMAIN apiCache})

getRequestStats(caller) ==
    Reply(<<requestStats.totalRequests, requestStats.successfulRequests,
            requestStats.failedRequests>>)

getCacheExpiration(caller) == Reply(cacheValidity)

\* ?Text: << >> for null
getCachedData(caller, key) ==
    IF key \in DOMAIN apiCache /\ now - apiCache[key].timestamp < cacheValidity
    THEN Reply(<<apiCache[key].data>>)
    ELSE Reply(<< >>)

getCacheTimeRemaining(caller, key) ==
    IF key \in DOMAIN apiCache
    THEN LET remaining == cacheValidity - (now - apiCache[key].timestamp)
         IN  Reply(IF remaining > 0 THEN remaining ELSE 0)
    ELSE Reply(0)

InitProxy ==
    /\ legacy \in BOOLEAN
    /\ now = 0
    /\ apiCache = << >>
    /\ errorLog = << >>
    /\ logCounter = 0
    /\ consecutiveErrors = 0
    /\ requestStats = [totalRequests |-> 0, successfulRequests |-> 0,
                       failedRequests |-> 0, lastErroredRequest |-> NoError]
    /\ call = [c \in Callers |-> IdleCall]
    /\ upstreamIssued = 0
    /\ foursquareApiKey = << >>

NextProxy ==
    \/ \E c \in Callers, m \in Methods, u \in Urls, b \in Bodies : ProxyCall(c, m, u, b)
    \/ \E c \in Callers, r \in Payloads : UpstreamSuccess(c, r)
    \/ \E c \in Callers, e \in UpstreamErrors : UpstreamFailure(c, e)
    \/ Tick

\* the proxy with the admin operations and ping, at one reading of the clock
\* (the counters and the clears do not read it)
NextProxyAdmin ==
    \/ \E c \in Callers, m \in Methods, u \in Urls, b \in Bodies : ProxyCall(c, m, u, b)
    \/ \E c \in Callers, r \in Payloads : UpstreamSuccess(c, r)
    \/ \E c \in Callers, e \in UpstreamErrors : UpstreamFailure(c, e)
    \/ \E p \in Principals, prefix \in Prefixes : clearCachePrefix(p, prefix)
    \/ \E p \in Principals : clearApiCache(p)
    \/ \E p \in Principals, key \in ApiKeys : setFoursquareApiKey(p, key)
    \/ \E p \in Principals : clearFoursquareApiKey(p)
    \/ ping

\* the actor after n upstream attempts that all failed at time 0: the log, the
\* log counter, the consecutive-error counter and the request counters as the
\* catch branch leaves them
PriorMessage(id) == AttemptMessage("GET", id % (retryLimit + 1), "timeout")

\* the log after n such attempts: below maxLogEntries logError only appends
LogAfter(n) == [id \in 0 .. n - 1 |-> [timestamp |-> 0, message |-> PriorMessage(id)]]

\* the consecutive-error counter after n such attempts: it returns to 0 at
\* every maxConsecutiveErrors-th
ErrorsAfter(n) == n % maxConsecutiveErrors

InitKeyed(n, key) ==
    /\ legacy = FALSE
    /\ now = 0
    /\ apiCache = << >>
    /\ errorLog = LogAfter(n)
    /\ logCounter = n
    /\ consecutiveErrors = ErrorsAfter(n)
    /\ requestStats = [totalRequests |-> n, successfulRequests |-> 0,
                       failedRequests |-> n,
                       lastErroredRequest |->
                           IF n = 0 THEN NoError
                           ELSE [timestamp |-> 0, message |-> PriorMessage(n - 1)]]
    /\ call = [c \in Callers |-> IdleCall]
    /\ upstreamIssued = 0
    /\ foursquareApiKey = key

InitAfter(n) == InitKeyed(n, << >>)

\* a new actor, or one whose consecutive-error counter is one below its limit
InitAdmin == \E n \in {0, maxConsecutiveErrors - 1} : InitAfter(n)

\* an actor whose log is one entry below its limit
InitLongRun == InitAfter(maxLogEntries - 1)

----------------------------------------------------------------------------
(* ClientRetryOrchestrator *)

MAX_AUTO_RETRIES == 2

RETRY_DELAY_MS == 2000

Execs == 1 .. NumExecs

\* String.prototype.toLowerCase on the tokens that have an upper-case letter
toLowerCase(text) ==
    [i \in 1 .. Len(text) |->
        CASE text[i] = "Unauthorized" -> "unauthorized"
          [] text[i] = "Only admins"  -> "only admins"
          [] text[i] = "Canister"     -> "canister"
          [] text[i] = "Rate limit"   -> "rate limit"
          [] text[i] = "Error:"       -> "error:"
          [] OTHER                    -> text[i]]

\* String.prototype.includes for a keyword that is one token
includes(text, keyword) == \E i \in 1 .. Len(text) : text[i] = keyword

includesAny(text, keywords) == \E k \in keywords : includes(text, k)

\* getUserFriendlyError(error, retryCount)
getUserFriendlyError(error, count) ==
    LET message == toLowerCase(error.message)
        defaultError ==
            [message |-> <<"Unable to search for restaurants at this time. Please try again.">>,
             isRetrying |-> FALSE, retryCount |-> count, canRetry |-> TRUE,
             isAuthError |-> FALSE]
    IN  IF ~error.isError THEN defaultError
        ELSE IF includesAny(message, {"unauthorized", "permission", "forbidden", "access denied"})
        THEN [message |-> <<"You need to be logged in to use this feature. Please log in and try again.">>,
              isRetrying |-> FALSE, retryCount |-> count, canRetry |-> FALSE,
              isAuthError |-> TRUE]
        ELSE IF includesAny(message, {"only admins", "only users", "admin only"})
        THEN [message |-> <<"This feature requires special permissions. Please log in with an authorized account.">>,
              isRetrying |-> FALSE, retryCount |-> count, canRetry |-> FALSE,
              isAuthError |-> TRUE]
        ELSE IF includesAny(message, {"canister", "stopped", "ic0508", "trap"})
        THEN [message |-> IF count > 0
                          THEN <<"Service", " is recovering (attempt ", ToText(count + 1),
                                 "/", ToText(MAX_AUTO_RETRIES + 1), "). Please wait...">>
                          ELSE <<"The ", "service", " is temporarily restarting. Retrying automatically...">>,
              isRetrying |-> TRUE, retryCount |-> count, canRetry |-> TRUE,
              isAuthError |-> FALSE]
        ELSE IF includesAny(message, {"replication", "reject"})
        THEN [message |-> <<"Service", " is synchronizing. Retrying automatically...">>,
              isRetrying |-> TRUE, retryCount |-> count, canRetry |-> TRUE,
              isAuthError |-> FALSE]
        ELSE IF includesAny(message, {"network", "fetch"})
        THEN [message |-> <<"Network connection issue detected. Please check your internet connection.">>,
              isRetrying |-> FALSE, retryCount |-> count, canRetry |-> TRUE,
              isAuthError |-> FALSE]
        ELSE IF includesAny(message, {"timeout", "timed out"})
        THEN [message |-> <<"Request timed out. Retrying...">>,
              isRetrying |-> TRUE, retryCount |-> count, canRetry |-> TRUE,
              isAuthError |-> FALSE]
        ELSE IF includesAny(message, {"rate limit", "too many requests"})
        THEN [message |-> <<"Too many requests. Please wait a moment before trying again.">>,
              isRetrying |-> FALSE, retryCount |-> count, canRetry |-> FALSE,
              isAuthError |-> FALSE]
        ELSE defaultError

\* the class getUserFriendlyError puts an error in, read off its result
ErrorClass(err) ==
    LET s == getUserFriendlyError(err, 0)
    IN  CASE s.isAuthError -> "auth"
          [] s.message = <<"The ", "service", " is temporarily restarting. Retrying automatically...">>
                -> "service-recovering"
          [] s.message = <<"Service", " is synchronizing. Retrying automatically...">>
                -> "replication"
          [] s.message = <<"Request timed out. Retrying...">> -> "timeout"
          [] s.message = <<"Network connection issue detected. Please check your internet connection.">>
                -> "network"
          [] s.message = <<"Too many requests. Please wait a moment before trying again.">>
                -> "rate-limited"
          [] OTHER -> "unclassified"

\* guardBackendErrorResponse: the test it applies to a response
IsBackendErrorResponse(response) == StartsWith(response, ErrorMarker)

\* what an operation handed to executeWithRetry may throw
ThrownErrors ==
    {[isError |-> TRUE,  message |-> <<"Unauthorized", ": sign in first">>],
     [isError |-> TRUE,  message |-> <<"Only admins", " can do this">>],
     [isError |-> TRUE,  message |-> <<"Canister", " is ", "stopped">>],
     [isError |-> TRUE,  message |-> <<"Call was ", "reject", "ed">>],
     [isError |-> TRUE,  message |-> <<"Failed to ", "fetch">>],
     [isError |-> TRUE,  message |-> <<"Request ", "timed out">>],
     [isError |-> TRUE,  message |-> <<"fetch", " ", "timeout">>],
     [isError |-> TRUE,  message |-> <<"Rate limit", " exceeded">>],
     [isError |-> TRUE,  message |-> <<"boom">>],
     [isError |-> FALSE, message |-> <<"timeout">>]}

NoThrown == [isError |-> FALSE, message |-> <<>>]

\* what it may resolve with: a payload, or the proxy's sentinel string
ResolvedValues ==
    Payloads \cup
    {SentinelResult("POST", [timestamp |-> 0,
                             message |-> AttemptMessage("POST", retryLimit, "timeout")])}

IdleExec == [pc |-> "idle", attempt |-> 0, lastError |-> NoThrown, result |-> <<>>,
             thrown |-> NoThrown, invocations |-> 0, delays |-> <<>>]

\* a slot is free before its first call and once its call has ended
ExecFree(e) == exec[e].pc \in {"idle", "returned", "threw"}

\* executeWithRetry is called: attempt 0 invokes the operation at once; a new
\* call takes the lowest free slot
ExecStart(e) ==
    /\ ExecFree(e)
    /\ \A d \in Execs : d < e => ~ExecFree(d)
    /\ execStarted < MaxExecs
    /\ execStarted' = execStarted + 1
    /\ exec' = [exec EXCEPT ![e] = [IdleExec EXCEPT !.pc = "operating", !.invocations = 1]]
    /\ UNCHANGED <<safeMode, isRetrying, retryCount, isAuthError, toasts>>
    /\ UNCHANGED <<proxyVars, geoVars, searchVars>>

\* the condition under which a resolved attempt clears the safe-mode flag
ClearsSafeMode(attemptIndex) == attemptIndex > 0

\* await operation() resolved: lines 206-215
OpResolves(e, value) ==
    /\ exec[e].pc = "operating"
    /\ IF ClearsSafeMode(exec[e].attempt)
       THEN /\ toasts' = toasts \cup {"success"}
            /\ safeMode' = FALSE
       ELSE UNCHANGED <<toasts, safeMode>>
    /\ isRetrying' = FALSE
    /\ retryCount' = 0
    /\ exec' = [exec EXCEPT ![e].pc = "returned", ![e].result = value]
    /\ UNCHANGED <<isAuthError, execStarted>>
    /\ UNCHANGED <<proxyVars, geoVars, searchVars>>

\* a delay that does not grow with the attempt index
RetryDelay_Constant(attemptIndex) == RETRY_DELAY_MS

\* the delay slept before the attempt with this index
RetryDelay(attemptIndex) == RETRY_DELAY_MS * attemptIndex

\* safe mode raised for every failure that could have been retried
RaisesSafeMode_AnyRetryable(finalErrorState) == finalErrorState.canRetry

\* the test that raises safe mode after the loop: line 241
RaisesSafeMode(finalErrorState) ==
    finalErrorState.isRetrying \/ includes(finalErrorState.message, "service")

\* a loop that goes on whatever the error's class
ShouldRetry_IgnoresCanRetry(attemptIndex, errorState) ==
    attemptIndex < MAX_AUTO_RETRIES

\* the test that lets the loop go on after a failed attempt: line 226
ShouldRetry(attemptIndex, errorState) ==
    attemptIndex < MAX_AUTO_RETRIES /\ errorState.canRetry

\* await operation() threw: the catch branch, the loop step, lines 236-249
OpThrows(e, err) ==
    /\ exec[e].pc = "operating"
    /\ LET errorState == getUserFriendlyError(err, exec[e].attempt)
           finalErrorState == getUserFriendlyError(err, MAX_AUTO_RETRIES)
           next == exec[e].attempt + 1
       IN IF errorState.isAuthError
          THEN \* throw err
               /\ isAuthError' = TRUE
               /\ exec' = [exec EXCEPT ![e].pc = "threw", ![e].lastError = err,
                                       ![e].thrown = err]
               /\ UNCHANGED <<safeMode, isRetrying, retryCount, toasts>>
          ELSE IF ShouldRetry(exec[e].attempt, errorState)
          THEN \* toast.info, then the next iteration up to its delay
               /\ toasts' = toasts \cup {"info"}
               /\ isRetrying' = TRUE
               /\ retryCount' = next
               /\ exec' = [exec EXCEPT ![e].pc = "delaying", ![e].lastError = err,
                                       ![e].attempt = next,
                                       ![e].delays = Append(@, RetryDelay(next))]
               /\ UNCHANGED <<safeMode, isAuthError>>
          ELSE \* break, or the loop ran out: the code after the loop
               /\ isRetrying' = FALSE
               /\ retryCount' = 0
               /\ IF RaisesSafeMode(finalErrorState)
                  THEN /\ safeMode' = TRUE
                       /\ toasts' = toasts \cup {"error"}
                  ELSE UNCHANGED <<safeMode, toasts>>
               /\ exec' = [exec EXCEPT ![e].pc = "threw", ![e].lastError = err,
                                       ![e].thrown = err]
               /\ UNCHANGED isAuthError
    /\ UNCHANGED execStarted
    /\ UNCHANGED <<proxyVars, geoVars, searchVars>>

\* the delay before a retry has elapsed: the operation is invoked again
DelayElapsed(e) ==
    /\ exec[e].pc = "delaying"
    /\ exec' = [exec EXCEPT ![e].pc = "operating", ![e].invocations = @ + 1]
    /\ UNCHANGED <<safeMode, isRetrying, retryCount, isAuthError, toasts,
                   execStarted>>
    /\ UNCHANGED <<proxyVars, geoVars, searchVars>>

\* exitSafeMode: "Try Full Service Again"
exitSafeMode ==
    /\ safeMode
    /\ safeMode' = FALSE
    /\ isAuthError' = FALSE
    /\ toasts' = toasts \cup {"success"}
    /\ UNCHANGED <<isRetrying, retryCount, exec, execStarted>>
    /\ UNCHANGED <<proxyVars, geoVars, searchVars>>

InitRetry ==
    /\ safeMode = FALSE
    /\ isRetrying = FALSE
    /\ retryCount = 0
    /\ isAuthError = FALSE
    /\ exec = [e \in Execs |-> IdleExec]
    /\ toasts = {}
    /\ execStarted = 0

NextRetry ==
    \/ \E e \in Execs : ExecStart(e)
    \/ \E e \in Execs, v \in ResolvedValues : OpResolves(e, v)
    \/ \E e \in Execs, err \in ThrownErrors : OpThrows(e, err)
    \/ \E e \in Execs : DelayElapsed(e)
    \/ exitSafeMode

----------------------------------------------------------------------------
(* CoordinateValidator: src/src/frontend/src/lib/coordinates.ts *)

\* a JavaScript number: finite (in 1/10000 degree), NaN, or +/-Infinity
Num(v) == [k |-> "finite", v |-> v]
NaN    == [k |-> "NaN", v |-> 0]
PosInf == [k |-> "Infinity", v |-> 1]
NegInf == [k |-> "Infinity", v |-> -1]

Deg(d) == d * 10000

isNaN(x) == x.k = "NaN"

isFinite(x) == x.k = "finite"

\* a validator without the range tests
validateCoordinates_NoRange(lat, lon) ==
    IF isNaN(lat) \/ isNaN(lon)
    THEN [isValid |-> FALSE, reason |-> "Coordinates contain invalid numeric values"]
    ELSE IF ~isFinite(lat) \/ ~isFinite(lon)
    THEN [isValid |-> FALSE, reason |-> "Coordinates must be finite numbers"]
    ELSE [isValid |-> TRUE, reason |-> ""]

validateCoordinates(lat, lon) ==
    IF isNaN(lat) \/ isNaN(lon)
    THEN [isValid |-> FALSE, reason |-> "Coordinates contain invalid numeric values"]
    ELSE IF ~isFinite(lat) \/ ~isFinite(lon)
    THEN [isValid |-> FALSE, reason |-> "Coordinates must be finite numbers"]
    ELSE IF lat.v < Deg(-90) \/ lat.v > Deg(90)
    THEN [isValid |-> FALSE, reason |-> "Latitude must be between -90 and 90 degrees"]
    ELSE IF lon.v < Deg(-180) \/ lon.v > Deg(180)
    THEN [isValid |-> FALSE, reason |-> "Longitude must be between -180 and 180 degrees"]
    ELSE [isValid |-> TRUE, reason |-> ""]

----------------------------------------------------------------------------
(* GeoAcquisition: SearchSection, src/unnamed/part_006 *)

GPS_HIGH_ACCURACY_TIMEOUT_MS == 8000

GPS_LOW_ACCURACY_TIMEOUT_MS == 6000

\* what the browser and the IP service may answer
GpsPositions == {[lat |-> Num(Deg(48)), lon |-> Num(Deg(2))],
                 [lat |-> Num(Deg(91)), lon |-> Num(Deg(0))],
                 [lat |-> Num(Deg(48)), lon |-> NaN]}
GpsErrorCodes == {"PERMISSION_DENIED", "POSITION_UNAVAILABLE", "TIMEOUT"}
IpAnswers == {<<[lat |-> Num(0), lon |-> Num(0)]>>,
              <<[lat |-> NaN, lon |-> Num(0)]>>,
              <<>>}

IdleGeoState == [stage |-> "idle", locationSource |-> "null", coordinates |-> <<>>,
                 errorMessage |-> "null", canRetry |-> TRUE]

isDetecting ==
    geoState.stage \in {"requesting-permission", "detecting-gps-high",
                        "detecting-gps-low", "fallback-ip", "validating"}

isTracking == geoWatch.status \in {"tracking", "starting"}

Timer(kind, a, ms) == [kind |-> kind, att |-> a, ms |-> ms, n |-> 0, coords |-> <<>>]
Request(kind, a, n) == [kind |-> kind, att |-> a, ms |-> 0, n |-> n, coords |-> <<>>]
Done(kind, a, pos) == [kind |-> kind, att |-> a, ms |-> 500, n |-> 0, coords |-> <<pos>>]

\* clearGPSTimeout: the pending set without the timer the ref holds
clearGPSTimeout(pend, ref) == {t \in pend : <<t>> # ref}

\* a fallback that runs whatever the latch says
FallbackAllowed_Always(latch) == TRUE

\* the latch test at the head of fallbackToIPLocation
FallbackAllowed(latch) == ~latch

\* fallbackToIPLocation up to its await, called by an event of attempt a; pend,
\* ref, state and toast are what the calling handler has produced so far
fallbackToIPLocation(a, pend, ref, state, toast) ==
    IF ~FallbackAllowed(fallbackExecutedRef)
    THEN /\ pending' = pend
         /\ gpsTimeoutRef' = ref
         /\ geoState' = state
         /\ geoToast' = toast
         /\ UNCHANGED <<fallbackExecutedRef, ipLookups>>
    ELSE /\ fallbackExecutedRef' = TRUE
         /\ gpsTimeoutRef' = <<>>
         /\ geoState' = [state EXCEPT !.stage = "fallback-ip", !.errorMessage = "null"]
         /\ geoToast' = "Using IP-based location detection..."
         /\ pending' = clearGPSTimeout(pend, ref) \cup
               {Request("ipLookup", a,
                        Cardinality({l \in pend : l.kind = "ipLookup" /\ l.att = a}))}
         /\ ipLookups' = IF a = attempt THEN ipLookups + 1 ELSE ipLookups

\* the "Detect My Location" button is enabled (isLoading of the search hook is
\* taken to be false when the user clicks)
DetectButtonEnabled == ~isDetecting /\ geoState.canRetry /\ ~isTracking

handleDetectLocation ==
    /\ DetectButtonEnabled
    /\ IF isTracking
       THEN /\ geoToast' = "Please stop continuous tracking first"
            /\ UNCHANGED <<geoState, gpsTimeoutRef, fallbackExecutedRef, inFlightRef,
                           pending, attempt, ipLookups, searches>>
       ELSE IF inFlightRef
       THEN UNCHANGED <<geoState, gpsTimeoutRef, fallbackExecutedRef, inFlightRef,
                        pending, geoToast, attempt, ipLookups, searches>>
       ELSE IF ~secureContext
       THEN /\ geoState' = [stage |-> "not-secure", locationSource |-> "null",
                            coordinates |-> <<>>,
                            errorMessage |-> "Location detection requires a secure connection (HTTPS).",
                            canRetry |-> FALSE]
            /\ geoToast' = "Secure connection required for location detection"
            /\ UNCHANGED <<gpsTimeoutRef, fallbackExecutedRef, inFlightRef, pending,
                           attempt, ipLookups, searches>>
       ELSE IF ~geoSupported
       THEN /\ geoState' = [stage |-> "not-supported", locationSource |-> "null",
                            coordinates |-> <<>>,
                            errorMessage |-> "Your browser does not support location detection.",
                            canRetry |-> FALSE]
            /\ geoToast' = "Location detection not supported"
            /\ UNCHANGED <<gpsTimeoutRef, fallbackExecutedRef, inFlightRef, pending,
                           attempt, ipLookups, searches>>
       ELSE /\ attempt < MaxAttempts
            /\ attempt' = attempt + 1
            /\ ipLookups' = 0
            /\ searches' = 0
            /\ inFlightRef' = TRUE
            /\ fallbackExecutedRef' = FALSE
            /\ geoState' = [IdleGeoState EXCEPT !.stage = "detecting-gps-high"]
            /\ gpsTimeoutRef' = <<Timer("highTimer", attempt + 1, GPS_HIGH_ACCURACY_TIMEOUT_MS)>>
            /\ pending' = pending \cup
                  {Timer("highTimer", attempt + 1, GPS_HIGH_ACCURACY_TIMEOUT_MS),
                   Request("gpsHigh", attempt + 1, 0)}
            /\ UNCHANGED geoToast
    /\ UNCHANGED <<secureContext, geoSupported, geoWatch, watchIdRef>>
    /\ UNCHANGED <<proxyVars, retryVars, trackVars, handed, searchVars>>

\* the 8 s timer set by handleDetectLocation fires
HighTimerFires(t) ==
    /\ t \in pending /\ t.kind = "highTimer"
    /\ pending' = pending \ {t}
    /\ geoState' = [geoState EXCEPT !.stage = "detecting-gps-low"]
    /\ UNCHANGED <<secureContext, geoSupported, gpsTimeoutRef, fallbackExecutedRef,
                   inFlightRef, geoWatch, watchIdRef, geoToast, attempt, ipLookups,
                   searches>>
    /\ UNCHANGED <<proxyVars, retryVars, trackVars, handed, searchVars>>

\* the 6 s timer set by handleGeolocationError fires
LowTimerFires(t) ==
    /\ t \in pending /\ t.kind = "lowTimer"
    /\ fallbackToIPLocation(t.att, pending \ {t}, gpsTimeoutRef, geoState, geoToast)
    /\ UNCHANGED <<secureContext, geoSupported, inFlightRef, geoWatch, watchIdRef,
                   attempt, searches>>
    /\ UNCHANGED <<proxyVars, retryVars, trackVars, handed, searchVars>>

\* getCurrentPosition calls its success callback
handleGeolocationSuccess(r, position) ==
    /\ r \in pending /\ r.kind \in {"gpsHigh", "gpsLow"}
    /\ LET validation == validateCoordinates(position.lat, position.lon)
           cleared == clearGPSTimeout(pending \ {r}, gpsTimeoutRef)
       IN IF ~validation.isValid
          THEN fallbackToIPLocation(r.att, cleared, <<>>,
                   [geoState EXCEPT !.errorMessage = validation.reason],
                   "GPS coordinates invalid, trying IP fallback...")
          ELSE /\ gpsTimeoutRef' = <<>>
               /\ geoState' = [stage |-> "validating", locationSource |-> "GPS",
                               coordinates |-> <<position>>, errorMessage |-> "null",
                               canRetry |-> TRUE]
               /\ geoToast' = "Location detected via GPS"
               /\ pending' = cleared \cup {Done("gpsDone", r.att, position)}
               /\ UNCHANGED <<fallbackExecutedRef, ipLookups>>
    /\ UNCHANGED <<secureContext, geoSupported, inFlightRef, geoWatch, watchIdRef,
                   attempt, searches>>
    /\ UNCHANGED <<proxyVars, retryVars, trackVars, handed, searchVars>>

\* the 500 ms timer of handleGeolocationSuccess fires
GpsDoneFires(t) ==
    /\ t \in pending /\ t.kind = "gpsDone"
    /\ pending' = pending \ {t}
    /\ geoState' = [geoState EXCEPT !.stage = "success"]
    /\ searches' = IF t.att = attempt THEN searches + 1 ELSE searches
    /\ inFlightRef' = FALSE
    /\ fallbackExecutedRef' = FALSE
    /\ UNCHANGED <<secureContext, geoSupported, gpsTimeoutRef, geoWatch, watchIdRef,
                   geoToast, attempt, ipLookups>>
    /\ handed' = <<[mode |-> "GPS", coords |-> t.coords[1]]>>
    /\ UNCHANGED <<proxyVars, retryVars, trackVars, searchVars>>

\* getCurrentPosition calls its error callback
handleGeolocationError(r, code) ==
    /\ r \in pending /\ r.kind \in {"gpsHigh", "gpsLow"}
    /\ LET isHighAccuracy == r.kind = "gpsHigh"
           cleared == clearGPSTimeout(pending \ {r}, gpsTimeoutRef)
       IN IF code = "PERMISSION_DENIED"
          THEN /\ geoState' = [stage |-> "permission-denied", locationSource |-> "null",
                               coordinates |-> <<>>,
                               errorMessage |-> "Location access was denied.",
                               canRetry |-> FALSE]
               /\ geoToast' = "Location permission denied. Please search by city name."
               /\ inFlightRef' = FALSE
               /\ gpsTimeoutRef' = <<>>
               /\ pending' = cleared
               /\ UNCHANGED <<fallbackExecutedRef, ipLookups>>
          ELSE IF isHighAccuracy
          THEN /\ geoState' = [geoState EXCEPT !.stage = "detecting-gps-low"]
               /\ gpsTimeoutRef' = <<Timer("lowTimer", r.att, GPS_LOW_ACCURACY_TIMEOUT_MS)>>
               /\ pending' = cleared \cup
                     {Timer("lowTimer", r.att, GPS_LOW_ACCURACY_TIMEOUT_MS),
                      Request("gpsLow", r.att, 0)}
               /\ UNCHANGED <<fallbackExecutedRef, inFlightRef, geoToast, ipLookups>>
          ELSE /\ fallbackToIPLocation(r.att, cleared, <<>>, geoState, geoToast)
               /\ UNCHANGED inFlightRef
    /\ UNCHANGED <<secureContext, geoSupported, geoWatch, watchIdRef, attempt, searches>>
    /\ UNCHANGED <<proxyVars, retryVars, trackVars, handed, searchVars>>

\* await getIPLocation() returns: the rest of fallbackToIPLocation
IpLookupReturns(l, answer) ==
    /\ l \in pending /\ l.kind = "ipLookup"
    /\ IF answer # <<>> /\ validateCoordinates(answer[1].lat, answer[1].lon).isValid
       THEN /\ geoState' = [stage |-> "validating", locationSource |-> "IP",
                            coordinates |-> answer, errorMessage |-> "null",
                            canRetry |-> TRUE]
            /\ geoToast' = "Approximate location detected (IP-based)"
            /\ pending' = (pending \ {l}) \cup {Done("ipDone", l.att, answer[1])}
            /\ UNCHANGED inFlightRef
       ELSE /\ geoState' = [stage |-> "failed", locationSource |-> "null",
                            coordinates |-> <<>>,
                            errorMessage |-> "Unable to determine your location automatically.",
                            canRetry |-> TRUE]
            /\ geoToast' = "Location detection failed. Please search by city name."
            /\ inFlightRef' = FALSE
            /\ pending' = pending \ {l}
    /\ UNCHANGED <<secureContext, geoSupported, gpsTimeoutRef, fallbackExecutedRef,
                   geoWatch, watchIdRef, attempt, ipLookups, searches>>
    /\ UNCHANGED <<proxyVars, retryVars, trackVars, handed, searchVars>>

\* the 500 ms timer of fallbackToIPLocation fires
IpDoneFires(t) ==
    /\ t \in pending /\ t.kind = "ipDone"
    /\ pending' = pending \ {t}
    /\ geoState' = [geoState EXCEPT !.stage = "success"]
    /\ searches' = IF t.att = attempt THEN searches + 1 ELSE searches
    /\ inFlightRef' = FALSE
    /\ UNCHANGED <<secureContext, geoSupported, gpsTimeoutRef, fallbackExecutedRef,
                   geoWatch, watchIdRef, geoToast, attempt, ipLookups>>
    /\ handed' = <<[mode |-> "IP", coords |-> t.coords[1]]>>
    /\ UNCHANGED <<proxyVars, retryVars, trackVars, searchVars>>

\* the "Try Again" button is rendered
RetryButtonShown == geoState.errorMessage # "null" /\ geoState.canRetry

handleRetry ==
    /\ RetryButtonShown
    /\ attempt < MaxAttempts
    /\ attempt' = attempt + 1
    /\ ipLookups' = 0
    /\ searches' = 0
    /\ geoState' = IdleGeoState
    /\ inFlightRef' = FALSE
    /\ fallbackExecutedRef' = FALSE
    /\ pending' = clearGPSTimeout(pending, gpsTimeoutRef)
    /\ gpsTimeoutRef' = <<>>
    /\ UNCHANGED <<secureContext, geoSupported, geoWatch, watchIdRef, geoToast>>
    /\ UNCHANGED <<proxyVars, retryVars, trackVars, handed, searchVars>>

\* ---- continuous tracking: useGeolocationWatch (src/unnamed/part_000), the
\* ---- RateLimiter (src/unnamed/part_001) and the tracking effect

TRACKING_SEARCH_INTERVAL_MS == 10000

\* Date.now() when the component is mounted, and the grain of its advance; the
\* origin is chosen so that Date.now() is not below the limiter's interval
PageLoadTime == 20000

TickMs == 5000

\* what watchPosition may report: a fix, one 0.0005 degree north of it, one
\* 0.0006 degree east of it, and a latitude out of range
WatchPositions == {[lat |-> Num(Deg(48)), lon |-> Num(Deg(2))],
                   [lat |-> Num(Deg(48) + 5), lon |-> Num(Deg(2))],
                   [lat |-> Num(Deg(48)), lon |-> Num(Deg(2) + 6)],
                   [lat |-> Num(Deg(91)), lon |-> Num(Deg(0))]}

\* a limiter that lets an action through after half the interval
canExecute_Half(last) == 2 * (dateNow - last) >= TRACKING_SEARCH_INTERVAL_MS

\* RateLimiter.canExecute, for a limiter whose lastExecutionTime is last
canExecute(last) == dateNow - last >= TRACKING_SEARCH_INTERVAL_MS

\* Math.abs(x - y) > 0.0005, y finite
DiffExceeds(x, y) ==
    IF isNaN(x) THEN FALSE
    ELSE IF ~isFinite(x) THEN TRUE
    ELSE (IF x.v >= y.v THEN x.v - y.v ELSE y.v - x.v) > 5

\* the significant-movement test of the tracking effect
significantChange(position, last) ==
    IF last # <<>>
    THEN DiffExceeds(position.lat, last[1].lat) \/ DiffExceeds(position.lon, last[1].lon)
    ELSE TRUE

\* the tracking effect triggers a search for the hook state it is rendered with
TrackingSearchTriggered(state) ==
    /\ state.status = "tracking" /\ state.position # <<>>
    /\ significantChange(state.position[1], lastSearchCoordsRef)
    /\ canExecute(lastExecutionTime)
    /\ validateCoordinates(state.position[1].lat, state.position[1].lon).isValid

\* the tracking effect, run after a render with hook state `state`; toast is
\* what the handler before it has shown
trackingEffect(state, toast) ==
    IF TrackingSearchTriggered(state)
    THEN /\ lastSearchCoordsRef' = state.position
         /\ lastExecutionTime' = dateNow
         /\ handed' = <<[mode |-> "tracking", coords |-> state.position[1]]>>
         /\ trackTimes' = IF trackTimes = <<>> THEN <<dateNow>>
                          ELSE <<trackTimes[Len(trackTimes)], dateNow>>
         /\ geoToast' = IF isFirstTrackingFixRef THEN "Location acquired" ELSE toast
         /\ isFirstTrackingFixRef' = FALSE
    ELSE /\ geoToast' = toast
         /\ UNCHANGED <<lastSearchCoordsRef, lastExecutionTime, handed, trackTimes,
                        isFirstTrackingFixRef>>

\* the "Start Tracking" button is enabled, or the "Retry" button of the
\* tracking alert is rendered
StartTrackingEnabled ==
    \/ ~isTracking /\ ~isDetecting
    \/ geoWatch.error /\ geoWatch.canRetry

\* handleStartTracking, with startTracking of useGeolocationWatch
handleStartTracking ==
    /\ StartTrackingEnabled
    /\ IF inFlightRef
       THEN /\ geoToast' = "Please wait for location detection to complete"
            /\ UNCHANGED <<geoWatch, watchIdRef, watches, watchCount,
                           lastSearchCoordsRef, lastExecutionTime,
                           isFirstTrackingFixRef, trackTimes>>
       ELSE /\ lastExecutionTime' = 0
            /\ lastSearchCoordsRef' = <<>>
            /\ isFirstTrackingFixRef' = TRUE
            /\ trackTimes' = <<>>
            /\ geoToast' = "Continuous tracking started"
            /\ IF ~geoSupported \/ ~secureContext
               THEN /\ geoWatch' = [status |-> "error", error |-> TRUE,
                                    canRetry |-> FALSE, position |-> <<>>]
                    /\ UNCHANGED <<watchIdRef, watches, watchCount>>
               ELSE /\ watchCount < MaxWatches
                    /\ geoWatch' = [geoWatch EXCEPT !.status = "starting", !.error = FALSE]
                    /\ watchCount' = watchCount + 1
                    /\ watchIdRef' = watchCount + 1
                    /\ watches' = watches \cup {watchCount + 1}
    /\ UNCHANGED <<secureContext, geoSupported, geoState, gpsTimeoutRef,
                   fallbackExecutedRef, inFlightRef, pending, attempt, ipLookups,
                   searches, handed, dateNow>>
    /\ UNCHANGED <<proxyVars, retryVars, searchVars>>

\* the "Stop Tracking" button is enabled
StopTrackingEnabled == isTracking

\* handleStopTracking, with stopTracking of useGeolocationWatch
handleStopTracking ==
    /\ StopTrackingEnabled
    /\ watches' = IF watchIdRef # 0 THEN watches \ {watchIdRef} ELSE watches
    /\ watchIdRef' = 0
    /\ geoWatch' = [geoWatch EXCEPT !.status = "stopped", !.error = FALSE]
    /\ lastSearchCoordsRef' = <<>>
    /\ lastExecutionTime' = 0
    /\ isFirstTrackingFixRef' = TRUE
    /\ trackTimes' = <<>>
    /\ geoToast' = "Tracking stopped"
    /\ UNCHANGED <<secureContext, geoSupported, geoState, gpsTimeoutRef,
                   fallbackExecutedRef, inFlightRef, pending, attempt, ipLookups,
                   searches, handed, watchCount, dateNow>>
    /\ UNCHANGED <<proxyVars, retryVars, searchVars>>

\* the subscribed watch w calls handleSuccess of useGeolocationWatch; the
\* tracking effect runs on the new position
WatchSuccess(w, position) ==
    /\ w \in watches
    /\ LET state == [status |-> "tracking", error |-> FALSE, canRetry |-> TRUE,
                     position |-> <<position>>]
       IN /\ geoWatch' = state
          /\ trackingEffect(state, geoToast)
    /\ UNCHANGED <<secureContext, geoSupported, geoState, gpsTimeoutRef,
                   fallbackExecutedRef, inFlightRef, watchIdRef, pending,
                   attempt, ipLookups, searches, watches, watchCount, dateNow>>
    /\ UNCHANGED <<proxyVars, retryVars, searchVars>>

\* the subscribed watch w calls handleError of useGeolocationWatch
WatchError(w, code) ==
    /\ w \in watches
    /\ IF code = "PERMISSION_DENIED"
       THEN /\ geoWatch' = [status |-> "permission-denied", error |-> TRUE,
                            canRetry |-> FALSE, position |-> <<>>]
            /\ watches' = IF watchIdRef # 0 THEN watches \ {watchIdRef} ELSE watches
            /\ watchIdRef' = 0
       ELSE /\ geoWatch' = [status |-> "error", error |-> TRUE, canRetry |-> TRUE,
                            position |-> <<>>]
            /\ UNCHANGED <<watchIdRef, watches>>
    /\ UNCHANGED <<secureContext, geoSupported, geoState, gpsTimeoutRef,
                   fallbackExecutedRef, inFlightRef, pending, geoToast, attempt,
                   ipLookups, searches, handed, watchCount, lastSearchCoordsRef,
                   lastExecutionTime, isFirstTrackingFixRef, dateNow, trackTimes>>
    /\ UNCHANGED <<proxyVars, retryVars, searchVars>>

\* App renders again and passes a new onLocationSearch (searchByLocation is not
\* memoized), so the tracking effect runs again on the position it already has
TrackingEffectRerun ==
    /\ trackingEffect(geoWatch, geoToast)
    /\ UNCHANGED <<secureContext, geoSupported, geoState, gpsTimeoutRef,
                   fallbackExecutedRef, inFlightRef, geoWatch, watchIdRef, pending,
                   attempt, ipLookups, searches, watches, watchCount, dateNow>>
    /\ UNCHANGED <<proxyVars, retryVars, searchVars>>

\* Date.now() advances
ClockTick ==
    /\ dateNow + TickMs <= PageLoadTime + MaxTicks * TickMs
    /\ dateNow' = dateNow + TickMs
    /\ UNCHANGED <<secureContext, geoSupported, geoState, gpsTimeoutRef,
                   fallbackExecutedRef, inFlightRef, geoWatch, watchIdRef, pending,
                   geoToast, attempt, ipLookups, searches, handed, watches,
                   watchCount, lastSearchCoordsRef, lastExecutionTime,
                   isFirstTrackingFixRef, trackTimes>>
    /\ UNCHANGED <<proxyVars, retryVars, searchVars>>

InitGeo ==
    /\ secureContext \in BOOLEAN
    /\ geoSupported \in BOOLEAN
    /\ geoState = IdleGeoState
    /\ gpsTimeoutRef = <<>>
    /\ fallbackExecutedRef = FALSE
    /\ inFlightRef = FALSE
    /\ geoWatch = [status |-> "idle", error |-> FALSE, canRetry |-> TRUE,
                   position |-> <<>>]
    /\ watchIdRef = 0
    /\ pending = {}
    /\ geoToast = "none"
    /\ attempt = 0
    /\ ipLookups = 0
    /\ searches = 0
    /\ watches = {}
    /\ watchCount = 0
    /\ lastSearchCoordsRef = <<>>
    /\ lastExecutionTime = 0
    /\ isFirstTrackingFixRef = TRUE
    /\ dateNow = PageLoadTime
    /\ handed = <<>>
    /\ trackTimes = <<>>

NextGeo ==
    \/ handleDetectLocation
    \/ \E t \in pending : HighTimerFires(t)
    \/ \E t \in pending : LowTimerFires(t)
    \/ \E r \in pending, p \in GpsPositions : handleGeolocationSuccess(r, p)
    \/ \E t \in pending : GpsDoneFires(t)
    \/ \E r \in pending, code \in GpsErrorCodes : handleGeolocationError(r, code)
    \/ \E l \in pending, a \in IpAnswers : IpLookupReturns(l, a)
    \/ \E t \in pending : IpDoneFires(t)
    \/ handleRetry
    \/ handleStartTracking
    \/ handleStopTracking
    \/ \E w \in watches, p \in WatchPositions : WatchSuccess(w, p)
    \/ \E w \in watches, code \in GpsErrorCodes : WatchError(w, code)
    \/ TrackingEffectRerun

\* acquisition attempts one at a time: the user clicks "Detect My Location" or
\* "Try Again" only when every callback of the earlier attempt has been
\* delivered; within an attempt its callbacks arrive in every order
NextGeoAttempt ==
    \/ pending = {} /\ handleDetectLocation
    \/ pending = {} /\ handleRetry
    \/ \E t \in pending : HighTimerFires(t)
    \/ \E t \in pending : LowTimerFires(t)
    \/ \E r \in pending, p \in GpsPositions : handleGeolocationSuccess(r, p)
    \/ \E t \in pending : GpsDoneFires(t)
    \/ \E r \in pending, code \in GpsErrorCodes : handleGeolocationError(r, code)
    \/ \E l \in pending, a \in IpAnswers : IpLookupReturns(l, a)
    \/ \E t \in pending : IpDoneFires(t)

\* both modes: acquisition attempts one at a time, as in NextGeoAttempt, with
\* the tracking controls and the watch callbacks at any time
NextGeoModes ==
    \/ NextGeoAttempt
    \/ handleStartTracking
    \/ handleStopTracking
    \/ \E w \in watches, p \in WatchPositions : WatchSuccess(w, p)
    \/ \E w \in watches, code \in GpsErrorCodes : WatchError(w, code)
    \/ TrackingEffectRerun

\* continuous tracking alone, with the clock
NextTracking ==
    \/ handleStartTracking
    \/ handleStopTracking
    \/ \E w \in watches, p \in WatchPositions : WatchSuccess(w, p)
    \/ \E w \in watches, code \in GpsErrorCodes : WatchError(w, code)
    \/ TrackingEffectRerun
    \/ ClockTick

----------------------------------------------------------------------------
(* placesMerge.ts: merging and ordering the places of the provider batches.
   A Restaurant is a record of id, name, latitude, longitude, rating, phone
   and distance; cuisine, address, city, country and website are merged by
   the same || as id and phone and are left out.  A text is a string, a name
   a sequence of one-character strings, an optional field << >> (undefined)
   or <<value>>, a coordinate an integer in 1/10000 degree, a distance an
   integer in metres. *)

RECURSIVE CollapseSpaces(_)
CollapseSpaces(s) ==
    IF Len(s) < 2 THEN s
    ELSE IF s[1] = " " /\ s[2] = " " THEN CollapseSpaces(Tail(s))
    ELSE <<s[1]>> \o CollapseSpaces(Tail(s))

RECURSIVE trim(_)
trim(s) ==
    IF s = << >> THEN s
    ELSE IF s[1] = " " THEN trim(Tail(s))
    ELSE IF s[Len(s)] = " " THEN trim(SubSeq(s, 1, Len(s) - 1))
    ELSE s

normalizeName(name) ==
    LET lowerChar(c) ==
            CASE c = "A" -> "a"
              [] c = "B" -> "b"
              [] c = "P" -> "p"
              [] c = "U" -> "u"
              [] OTHER   -> c
        \* \w and \s among the characters of the model
        isWordOrSpace(c) == c # "'"
        lower == [i \in 1 .. Len(name) |-> lowerChar(name[i])]
    IN  trim(CollapseSpaces(SelectSeq(lower, isWordOrSpace)))

\* the similarity in thousandths
stringSimilarity(str1, str2) ==
    LET s1 == normalizeName(str1)
        s2 == normalizeName(str2)
        includesText(s, t) ==
            \E i \in 0 .. Len(s) - Len(t) : SubSeq(s, i + 1, i + Len(t)) = t
        chars1 == {s1[i] : i \in 1 .. Len(s1)}
        chars2 == {s2[i] : i \in 1 .. Len(s2)}
    IN  IF s1 = s2 THEN 1000
        ELSE IF Len(s1) = 0 \/ Len(s2) = 0 THEN 0
        ELSE IF includesText(s1, s2) \/ includesText(s2, s1) THEN 800
        ELSE (1000 * Cardinality(chars1 \cap chars2)) \div Cardinality(chars1 \cup chars2)

RECURSIVE SqrtBetween(_, _, _)
\* the largest r in lo .. hi with r * r <= n
SqrtBetween(n, lo, hi) ==
    IF lo = hi THEN lo
    ELSE LET mid == (lo + hi + 1) \div 2
         IN  IF mid * mid <= n THEN SqrtBetween(n, mid, hi)
             ELSE SqrtBetween(n, lo, mid - 1)

\* R * (pi / 180) / 10000: centimetres on the ground per 1/10000 degree
CmPerUnit == 1112

\* the Haversine distance in centimetres for points some 1/10000 degree
\* apart beside the equator, where sin x = x and cos lat = 1 to the centimetre;
\* the square root is taken to 1/100 unit, which is 11 cm
calculateDistance(lat1, lon1, lat2, lon2) ==
    LET dLat == lat2 - lat1
        dLon == lon2 - lon1
    IN  (CmPerUnit * SqrtBetween(10000 * (dLat * dLat + dLon * dLon), 0, 46340)) \div 100

NAME_SIMILARITY_THRESHOLD == 750

PROXIMITY_THRESHOLD_METERS == 50

\* a comparison that takes two records of one listing for different places
areDuplicates_DistinctIds(r1, r2) ==
    /\ r1.id # r2.id
    /\ stringSimilarity(r1.name, r2.name) >= NAME_SIMILARITY_THRESHOLD
    /\ calculateDistance(r1.latitude, r1.longitude, r2.latitude, r2.longitude)
           <= PROXIMITY_THRESHOLD_METERS * 100

areDuplicates(r1, r2) ==
    /\ stringSimilarity(r1.name, r2.name) >= NAME_SIMILARITY_THRESHOLD
    /\ calculateDistance(r1.latitude, r1.longitude, r2.latitude, r2.longitude)
           <= PROXIMITY_THRESHOLD_METERS * 100

mergeRestaurants(r1, r2) ==
    LET \* a || b on texts, names, optional texts and numbers; a ?? b
        OrText(a, b) == IF a # "" THEN a ELSE b
        OrName(a, b) == IF a # << >> THEN a ELSE b
        OrOptionalText(a, b) == IF a # << >> /\ a # <<"">> THEN a ELSE b
        OrNumber(a, b) == IF a # 0 THEN a ELSE b
        Coalesce(a, b) == IF a # << >> THEN a ELSE b
    IN  [id        |-> OrText(r1.id, r2.id),
         name      |-> OrName(r1.name, r2.name),
         latitude  |-> OrNumber(r1.latitude, r2.latitude),
         longitude |-> OrNumber(r1.longitude, r2.longitude),
         rating    |-> Coalesce(r1.rating, r2.rating),
         phone     |-> OrOptionalText(r1.phone, r2.phone),
         distance  |-> Coalesce(r1.distance, r2.distance)]

RECURSIVE flat(_)
flat(lists) ==
    IF lists = << >> THEN << >> ELSE Head(lists) \o flat(Tail(lists))

RECURSIVE AbsorbDuplicates(_, _, _, _)
\* the inner loop from index j on: the record current has become and the
\* indices processed when the loop ends
AbsorbDuplicates(allRestaurants, j, current, processed) ==
    IF j > Len(allRestaurants)
    THEN [current |-> current, processed |-> processed]
    ELSE IF j \notin processed /\ areDuplicates(current, allRestaurants[j])
    THEN AbsorbDuplicates(allRestaurants, j + 1,
                          mergeRestaurants(current, allRestaurants[j]),
                          processed \cup {j})
    ELSE AbsorbDuplicates(allRestaurants, j + 1, current, processed)

RECURSIVE MergeFrom(_, _, _, _)
\* the outer loop from index i on
MergeFrom(allRestaurants, i, processed, merged) ==
    IF i > Len(allRestaurants) THEN merged
    ELSE IF i \in processed
    THEN MergeFrom(allRestaurants, i + 1, processed, merged)
    ELSE LET inner == AbsorbDuplicates(allRestaurants, i + 1, allRestaurants[i],
                                       processed \cup {i})
         IN  MergeFrom(allRestaurants, i + 1, inner.processed,
                       Append(merged, inner.current))

mergeAndDeduplicateRestaurants(sourceLists) ==
    MergeFrom(flat(sourceLists), 1, {}, << >>)

\* the comparator of sortByDistance on items [restaurant, originalIndex]:
\* negative when a goes first, positive when b goes first
compareByDistance_ReversedTie(a, b) ==
    LET distA == a.restaurant.distance
        distB == b.restaurant.distance
    IN  IF distA = << >> /\ distB = << >> THEN b.originalIndex - a.originalIndex
        ELSE IF distA = << >> THEN 1
        ELSE IF distB = << >> THEN -1
        ELSE IF distA = distB THEN b.originalIndex - a.originalIndex
        ELSE distA[1] - distB[1]

compareByDistance(a, b) ==
    LET distA == a.restaurant.distance
        distB == b.restaurant.distance
    IN  IF distA = << >> /\ distB = << >> THEN a.originalIndex - b.originalIndex
        ELSE IF distA = << >> THEN 1
        ELSE IF distB = << >> THEN -1
        ELSE IF distA = distB THEN a.originalIndex - b.originalIndex
        ELSE distA[1] - distB[1]

RECURSIVE InsertSorted(_, _)
\* item put before the first element the comparator orders after it
InsertSorted(item, items) ==
    IF items = << >> THEN <<item>>
    ELSE IF compareByDistance(item, Head(items)) < 0 THEN <<item>> \o items
    ELSE <<Head(items)>> \o InsertSorted(item, Tail(items))

RECURSIVE SortItems(_)
\* Array.prototype.sort under the comparator, as an insertion sort
SortItems(items) ==
    IF items = << >> THEN << >>
    ELSE InsertSorted(items[Len(items)], SortItems(SubSeq(items, 1, Len(items) - 1)))

sortByDistance(list) ==
    LET items  == [i \in 1 .. Len(list) |-> [restaurant |-> list[i], originalIndex |-> i]]
        sortedItems == SortItems(items)
    IN  [i \in 1 .. Len(list) |-> sortedItems[i].restaurant]

\* ---- the records the operations are applied to

\* what the providers say about a place beside where it is, at each of four
\* points <<latitude, longitude>> in a row, the first on the equator: each is
\* 33 m from the next and 67 m or more from the others
PlaceSamples ==
    LET AlisApo == <<"A", "l", "i", "'", "s">>
        Alis    == <<"a", "l", "i", "s", " ", " ">>
        Bob     == <<"B", "o", "b">>
        Listings ==
            {[id |-> "fsq-1", name |-> AlisApo, rating |-> <<4>>,
              phone |-> <<"p1">>, distance |-> <<120>>],
             [id |-> "osm-node-1", name |-> Alis, rating |-> << >>,
              phone |-> << >>, distance |-> <<90>>],
             [id |-> "fsq-2", name |-> Bob, rating |-> <<0>>,
              phone |-> <<"">>, distance |-> << >>]}
        Points == {<<0, 3>>, <<3, 3>>, <<6, 3>>, <<9, 3>>}
    IN  {[id |-> l.id, name |-> l.name, latitude |-> p[1], longitude |-> p[2],
          rating |-> l.rating, phone |-> l.phone, distance |-> l.distance] :
            l \in Listings, p \in Points}

\* ---- the operations applied to batches of these records

InitPlaces ==
    /\ \E B \in UNION {[1 .. k -> PlaceSamples] : k \in 0 .. MaxPlaces} :
           \/ \E k \in 0 .. Len(B) :
                  sources = <<SubSeq(B, 1, k), SubSeq(B, k + 1, Len(B))>>
           \/ sources = <<B, B>>
    /\ results = << >>
    /\ sorted = << >>

InitNoPlaces ==
    /\ sources = << >>
    /\ results = << >>
    /\ sorted = << >>

\* allResults = mergeAndDeduplicateRestaurants([...])
MergeSources ==
    /\ results = << >>
    /\ results' = <<mergeAndDeduplicateRestaurants(sources)>>
    /\ UNCHANGED <<sources, sorted>>
    /\ UNCHANGED <<proxyVars, retryVars, geoVars, hookVars, overlapVars, checkVars>>

\* the merge of a later tier whose two batches are empty: the accumulator is
\* handed to mergeAndDeduplicateRestaurants again
MergeAccumulator ==
    /\ results # << >>
    /\ sorted = << >>
    /\ Len(sources) = 2
    /\ sources' = <<results[1], << >>, << >>>>
    /\ results' = <<mergeAndDeduplicateRestaurants(<<results[1], << >>, << >>>>)>>
    /\ UNCHANGED sorted
    /\ UNCHANGED <<proxyVars, retryVars, geoVars, hookVars, overlapVars, checkVars>>

\* const sorted = sortByDistance(results)
SortMerged ==
    /\ results # << >>
    /\ sorted = << >>
    /\ sorted' = <<sortByDistance(results[1])>>
    /\ UNCHANGED <<sources, results>>
    /\ UNCHANGED <<proxyVars, retryVars, geoVars, hookVars, overlapVars, checkVars>>

NextPlaces ==
    \/ MergeSources
    \/ MergeAccumulator
    \/ SortMerged

----------------------------------------------------------------------------
(* useRestaurantSearch: the provider queries, the radius tiers and the two
   searches.  The actor is present; one search runs at a time.  A call made
   through executeWithRetry appears here with its outcome only: what the
   retries do to safeMode, isRetrying and retryCount is the retry section's.
   A reply of the backend is [rejected, text], the text a token sequence; a
   JSON text is <<"{", field, list, "}">> with list naming the array. *)

MIN_RESULTS_THRESHOLD == 5

MAX_RADIUS_METERS == 30000

\* the origin of the searches that pass validation, and one on each axis
SearchInputs ==
    {[lat |-> Num(10), lon |-> Num(10)],
     [lat |-> Num(Deg(91)), lon |-> Num(10)],
     [lat |-> NaN, lon |-> Num(10)]}

CityNames == {<< >>, <<" ", " ">>, <<"B", "o", "b">>}

\* the venue arrays of the Foursquare payloads: venue k lies 5 k units north
\* of the origin; one venue has neither geocodes nor a name
FoursquareVenues(list) ==
    LET ids  == <<"fsq-1", "fsq-2", "fsq-3", "fsq-4", "fsq-5", "fsq-6">>
        V(k) == [fsq_id |-> ids[k], name |-> <<"B", "o", "b">>,
                 geocodes |-> <<[latitude |-> 10 + 5 * k, longitude |-> 10]>>,
                 rating |-> <<4>>, tel |-> << >>, distance |-> <<56 * k>>]
        bare == [fsq_id |-> "fsq-7", name |-> << >>, geocodes |-> << >>,
                 rating |-> << >>, tel |-> << >>, distance |-> << >>]
    IN  CASE list = "few"   -> <<V(1)>>
          [] list = "other" -> <<V(1), bare>>
          [] list = "many"  -> [k \in 1 .. 6 |-> V(k)]
          [] OTHER          -> << >>

\* the element arrays of the Overpass payloads: "few" holds a node 1 unit
\* from venue 1 and a node without coordinates; "many" holds a way with its
\* center and five nodes, 5 k units east of the origin
OverpassElements(list) ==
    LET E(type, id, lat, lon) ==
            [type |-> type, id |-> id, lat |-> lat, lon |-> lon,
             center |-> << >>, name |-> <<<<"B", "o", "b">>>>]
    IN  CASE list = "few" ->
                <<E("node", 1, <<16>>, <<10>>),
                  [E("node", 2, << >>, << >>) EXCEPT !.name = << >>]>>
          [] list = "many" ->
                <<[E("way", 1, << >>, << >>) EXCEPT
                       !.center = <<[lat |-> 4, lon |-> 10]>>]>>
                    \o [k \in 1 .. 5 |-> E("node", 2 + k, <<10>>, <<10 + 5 * k>>)]
          [] OTHER -> << >>

JsonText(field, list) == <<"{", field, list, "}">>

\* what the outcall behind foursquarePlacesSearch may answer to the strict
\* and to the broader query
StrictBodies ==
    {JsonText("results", l) : l \in {"none", "few", "many"}} \cup {<<"<html>">>}

BroadBodies == {JsonText("results", "other"), <<"<html>">>}

\* what proxyExternalApiPost may resolve with
OverpassTexts ==
    {JsonText("elements", l) : l \in {"few", "many"}}
        \cup {SentinelResult("POST", NoError)}

Rejected == [rejected |-> TRUE, text |-> << >>]
Resolved(text) == [rejected |-> FALSE, text |-> text]
NoReply == [rejected |-> FALSE, text |-> <<"none yet">>]

\* JSON.parse: ok is false when it throws
JSONparse(text) ==
    IF Len(text) = 4 /\ text[1] = "{" /\ text[4] = "}"
    THEN [ok |-> TRUE,
          results  |-> IF text[2] = "results" THEN <<FoursquareVenues(text[3])>> ELSE << >>,
          elements |-> IF text[2] = "elements" THEN <<OverpassElements(text[3])>> ELSE << >>]
    ELSE IF text = <<"{", "}">>
    THEN [ok |-> TRUE, results |-> << >>, elements |-> << >>]
    ELSE [ok |-> FALSE, results |-> << >>, elements |-> << >>]

parseVenues(venues) ==
    [i \in 1 .. Len(venues) |->
        LET venue == venues[i]
        IN  [id        |-> venue.fsq_id,
             name      |-> IF venue.name # << >> THEN venue.name
                           ELSE <<"U", "n", "k", "n", "o", "w", "n">>,
             latitude  |-> IF venue.geocodes # << >> /\ venue.geocodes[1].latitude # 0
                           THEN venue.geocodes[1].latitude ELSE 0,
             longitude |-> IF venue.geocodes # << >> /\ venue.geocodes[1].longitude # 0
                           THEN venue.geocodes[1].longitude ELSE 0,
             rating    |-> venue.rating,
             phone     |-> venue.tel,
             distance  |-> venue.distance]]

\* Math.round(haversineDistance(...)), in metres
haversineDistance(lat1, lon1, lat2, lon2) ==
    (calculateDistance(lat1, lon1, lat2, lon2) + 50) \div 100

RECURSIVE parseOverpassElements(_, _, _)
parseOverpassElements(elements, searchLat, searchLon) ==
    IF elements = << >> THEN << >>
    ELSE LET element == Head(elements)
             isNode  == /\ element.type = "node"
                        /\ element.lat # << >> /\ element.lat # <<0>>
                        /\ element.lon # << >> /\ element.lon # <<0>>
             isArea  == /\ element.type \in {"way", "relation"}
                        /\ element.center # << >>
             lat     == IF isNode THEN element.lat[1]
                        ELSE IF isArea THEN element.center[1].lat ELSE 0
             lon     == IF isNode THEN element.lon[1]
                        ELSE IF isArea THEN element.center[1].lon ELSE 0
             ids     == [node |-> <<"osm-node-1", "osm-node-2", "osm-node-3",
                                    "osm-node-4", "osm-node-5", "osm-node-6",
                                    "osm-node-7", "osm-node-8">>,
                         way  |-> <<"osm-way-1">>]
             rest    == parseOverpassElements(Tail(elements), searchLat, searchLon)
         IN  IF lat = 0 \/ lon = 0 THEN rest
             ELSE <<[id        |-> ids[element.type][element.id],
                     name      |-> IF element.name # << >> THEN element.name[1]
                                   ELSE <<"U", "n", "n", "a", "m", "e", "d", " ",
                                          "P", "l", "a", "c", "e">>,
                     latitude  |-> lat,
                     longitude |-> lon,
                     rating    |-> << >>,
                     phone     |-> << >>,
                     distance  |-> <<haversineDistance(searchLat, searchLon, lat, lon)>>]>>
                  \o rest

parseOverpassResponse(response, searchLat, searchLon) ==
    IF response.elements = << >> THEN << >>
    ELSE parseOverpassElements(response.elements[1], searchLat, searchLon)

\* ---- fetchFoursquareResults and fetchOverpassResults, by the reply they
\* ---- await: threw says whether the function throws to its caller

\* a fetch that lets a failure through to its caller
StrictOutcome_Rethrows(reply) ==
    LET data   == JSONparse(reply.text)
        venues == IF data.results = << >> THEN << >> ELSE data.results[1]
    IN  IF reply.rejected \/ StartsWith(reply.text, ErrorMarker) \/ ~data.ok
        THEN [pc |-> "done", venues |-> << >>, batch |-> << >>, threw |-> TRUE]
        ELSE IF Len(venues) < MIN_RESULTS_THRESHOLD
        THEN [pc |-> "broad", venues |-> venues, batch |-> << >>, threw |-> FALSE]
        ELSE [pc |-> "done", venues |-> venues, batch |-> parseVenues(venues),
              threw |-> FALSE]

\* after the strict search replied
StrictOutcome(reply) ==
    LET data   == JSONparse(reply.text)
        venues == IF data.results = << >> THEN << >> ELSE data.results[1]
    IN  IF reply.rejected \/ StartsWith(reply.text, ErrorMarker) \/ ~data.ok
        THEN [pc |-> "done", venues |-> << >>, batch |-> << >>, threw |-> FALSE]
        ELSE IF Len(venues) < MIN_RESULTS_THRESHOLD
        THEN [pc |-> "broad", venues |-> venues, batch |-> << >>, threw |-> FALSE]
        ELSE [pc |-> "done", venues |-> venues, batch |-> parseVenues(venues),
              threw |-> FALSE]

\* a broader search whose venues are all appended
BroadOutcome_NoIdFilter(allResults, reply) ==
    LET data   == JSONparse(reply.text)
        usable == /\ ~reply.rejected /\ ~StartsWith(reply.text, ErrorMarker)
                  /\ data.ok /\ data.results # << >>
        venues == IF usable THEN allResults \o data.results[1] ELSE allResults
    IN  [pc |-> "done", venues |-> venues,
         batch |-> IF Len(venues) > 0 THEN parseVenues(venues) ELSE << >>,
         threw |-> FALSE]

\* after the broader search replied, allResults being the strict venues
BroadOutcome(allResults, reply) ==
    LET data   == JSONparse(reply.text)
        usable == /\ ~reply.rejected /\ ~StartsWith(reply.text, ErrorMarker)
                  /\ data.ok /\ data.results # << >>
        existingIds == {allResults[i].fsq_id : i \in 1 .. Len(allResults)}
        isNew(v) == v.fsq_id \notin existingIds
        venues == IF usable THEN allResults \o SelectSeq(data.results[1], isNew)
                  ELSE allResults
    IN  [pc |-> "done", venues |-> venues,
         batch |-> IF Len(venues) > 0 THEN parseVenues(venues) ELSE << >>,
         threw |-> FALSE]

\* reply is what executeWithRetry ended with
OverpassOutcome(reply, latitude, longitude) ==
    LET data == JSONparse(reply.text)
    IN  IF reply.rejected \/ IsBackendErrorResponse(reply.text) \/ ~data.ok
        THEN [pc |-> "done", batch |-> << >>, threw |-> FALSE]
        ELSE [pc |-> "done", batch |-> parseOverpassResponse(data, latitude, longitude),
              threw |-> FALSE]

\* ---- searchWithRadiusExpansion

\* a tier sequence that appends both further radii whatever the first is
Radii_AlwaysAppends(initialRadius) == <<initialRadius, 20000, MAX_RADIUS_METERS>>

\* the tier sequence for initialRadius
Radii(initialRadius) ==
    <<initialRadius>>
        \o (IF initialRadius < 20000 THEN <<20000>> ELSE << >>)
        \o (IF initialRadius < MAX_RADIUS_METERS THEN <<MAX_RADIUS_METERS>> ELSE << >>)

IdleSearch ==
    [pc |-> "idle", origin |-> <<0, 0>>, radii |-> << >>, queried |-> << >>,
     allResults |-> << >>, counts |-> << >>,
     foursquare |-> [pc |-> "done", venues |-> << >>, batch |-> << >>, threw |-> FALSE,
                     reply |-> NoReply],
     overpass   |-> [pc |-> "done", batch |-> << >>, threw |-> FALSE, reply |-> NoReply]]

\* Promise.all([fetchFoursquareResults(...), fetchOverpassResults(...)]) for
\* the next radius: both first calls are issued
QueryTier(s) ==
    [s EXCEPT !.pc = "tier",
              !.queried = Append(s.queried, s.radii[Len(s.queried) + 1]),
              !.foursquare = [pc |-> "strict", venues |-> << >>, batch |-> << >>,
                              threw |-> FALSE, reply |-> NoReply],
              !.overpass = [pc |-> "pending", batch |-> << >>, threw |-> FALSE,
                            reply |-> NoReply]]

StartSearch(latitude, longitude, initialRadius) ==
    QueryTier([IdleSearch EXCEPT !.origin = <<latitude, longitude>>,
                                 !.radii = Radii(initialRadius)])

\* a loop that stops only at the last tier
TierLoopEnds_LastOnly(allResults, i, radii) == i = Len(radii)

\* the two breaks of the loop, i counting the tiers from 1
TierLoopEnds(allResults, i, radii) ==
    \/ Len(allResults) >= MIN_RESULTS_THRESHOLD
    \/ i = Len(radii)

\* ---- the searches

searchByLocation(latitude, longitude) ==
    /\ running.pc = "idle"
    /\ isAuthError' = FALSE
    /\ LET validation == validateCoordinates(latitude, longitude)
       IN  IF ~validation.isValid
           THEN /\ hookError' = <<<<validation.reason>>>>
                /\ UNCHANGED <<restaurants, isLoading, running, issued, returned,
                               started>>
           ELSE /\ started < MaxSearches
                /\ started' = started + 1
                /\ returned' = << >>
                /\ isLoading' = TRUE
                /\ hookError' = << >>
                /\ running' = StartSearch(latitude.v, longitude.v, 10000)
                /\ issued' = 2
                /\ UNCHANGED restaurants
    /\ UNCHANGED <<safeMode, isRetrying, retryCount, exec, toasts, execStarted>>
    /\ UNCHANGED <<proxyVars, geoVars, placeVars, overlapVars, checkVars>>

searchByCity(cityName) ==
    /\ running.pc = "idle"
    /\ IF trim(cityName) = << >>
       THEN UNCHANGED <<restaurants, isLoading, hookError, running, issued,
                        returned, isAuthError, started>>
       ELSE /\ started < MaxSearches
            /\ started' = started + 1
            /\ returned' = << >>
            /\ isLoading' = TRUE
            /\ hookError' = << >>
            /\ isAuthError' = FALSE
            /\ running' = [IdleSearch EXCEPT !.pc = "geocoding"]
            /\ issued' = 1
            /\ UNCHANGED restaurants
    /\ UNCHANGED <<safeMode, isRetrying, retryCount, exec, toasts, execStarted>>
    /\ UNCHANGED <<proxyVars, geoVars, placeVars, overlapVars, checkVars>>

\* what the geocoding call ends with: a thrown error, the proxy's sentinel, an
\* empty array, or a first hit with lat and lon as parseFloat reads them
GeocodeAnswers ==
    {[kind |-> "throws", error |-> e, lat |-> NaN, lon |-> NaN] :
        e \in {[isError |-> TRUE, message |-> <<"Unauthorized", ": sign in first">>],
               [isError |-> TRUE, message |-> <<"Failed to ", "fetch">>]}}
    \cup {[kind |-> "sentinel",
           error |-> [isError |-> TRUE, message |-> SentinelResult("GET", NoError)],
           lat |-> NaN, lon |-> NaN],
          [kind |-> "empty", error |-> NoThrown, lat |-> NaN, lon |-> NaN],
          [kind |-> "hit", error |-> NoThrown, lat |-> NaN, lon |-> Num(10)],
          [kind |-> "hit", error |-> NoThrown, lat |-> Num(10), lon |-> Num(10)]}

GeocodeReturns(answer) ==
    /\ running.pc = "geocoding"
    /\ LET errorState == getUserFriendlyError(answer.error, 0)
           validation == validateCoordinates(answer.lat, answer.lon)
           GiveUp(message, auth) ==
               /\ hookError' = <<message>>
               /\ isAuthError' = auth
               /\ restaurants' = << >>
               /\ isLoading' = FALSE
               /\ running' = IdleSearch
               /\ UNCHANGED <<issued, returned>>
       IN  CASE answer.kind \in {"throws", "sentinel"} ->
                    IF errorState.isAuthError
                    THEN GiveUp(errorState.message, TRUE)
                    ELSE GiveUp(<<"Unable to find that location. Please check the spelling and try again.">>,
                                isAuthError)
             [] answer.kind = "empty" ->
                    GiveUp(<<"City not found. Please check the spelling or try a different location.">>,
                           isAuthError)
             [] OTHER ->
                    IF ~validation.isValid
                    THEN GiveUp(<<validation.reason>>, isAuthError)
                    ELSE /\ running' = StartSearch(answer.lat.v, answer.lon.v, 15000)
                         /\ issued' = issued + 2
                         /\ UNCHANGED <<restaurants, isLoading, hookError,
                                        isAuthError, returned>>
    /\ UNCHANGED <<started, safeMode, isRetrying, retryCount, exec, toasts, execStarted>>
    /\ UNCHANGED <<proxyVars, geoVars, placeVars, overlapVars, checkVars>>

\* actor.foursquarePlacesSearch(strictUrl) is rejected, or replies as the
\* backend does when the outcall answers with body
FoursquareStrictReturns(reply) ==
    /\ running.pc = "tier"
    /\ running.foursquare.pc = "strict"
    /\ LET outcome == StrictOutcome(reply)
       IN  /\ running' = [running EXCEPT !.foursquare =
                   [pc |-> outcome.pc, venues |-> outcome.venues,
                    batch |-> outcome.batch, threw |-> outcome.threw,
                    reply |-> reply]]
           /\ issued' = IF outcome.pc = "broad" THEN issued + 1 ELSE issued
    /\ UNCHANGED <<restaurants, isLoading, hookError, returned, started>>
    /\ UNCHANGED <<proxyVars, retryVars, geoVars, placeVars, overlapVars, checkVars>>

FoursquareBroadReturns(reply) ==
    /\ running.pc = "tier"
    /\ running.foursquare.pc = "broad"
    /\ LET outcome == BroadOutcome(running.foursquare.venues, reply)
       IN  running' = [running EXCEPT !.foursquare =
                   [pc |-> outcome.pc, venues |-> outcome.venues,
                    batch |-> outcome.batch, threw |-> outcome.threw,
                    reply |-> running.foursquare.reply]]
    /\ UNCHANGED <<restaurants, isLoading, hookError, returned, started, issued>>
    /\ UNCHANGED <<proxyVars, retryVars, geoVars, placeVars, overlapVars, checkVars>>

OverpassReturns(reply) ==
    /\ running.pc = "tier"
    /\ running.overpass.pc = "pending"
    /\ LET outcome == OverpassOutcome(reply, running.origin[1], running.origin[2])
       IN  running' = [running EXCEPT !.overpass =
                   [pc |-> outcome.pc, batch |-> outcome.batch,
                    threw |-> outcome.threw, reply |-> reply]]
    /\ UNCHANGED <<restaurants, isLoading, hookError, returned, started, issued>>
    /\ UNCHANGED <<proxyVars, retryVars, geoVars, placeVars, overlapVars, checkVars>>

\* Promise.all settles: the rest of the loop body, and when the loop ends the
\* rest of searchByLocation or searchByCity
TierCollected ==
    /\ running.pc = "tier"
    /\ running.foursquare.pc = "done"
    /\ running.overpass.pc = "done"
    /\ IF running.foursquare.threw \/ running.overpass.threw
       THEN /\ hookError' = <<<<"Unable to search for restaurants at this time. Please try again.">>>>
            /\ isAuthError' = FALSE
            /\ restaurants' = << >>
            /\ isLoading' = FALSE
            /\ running' = IdleSearch
            /\ UNCHANGED <<issued, returned>>
       ELSE \E allResults \in {mergeAndDeduplicateRestaurants(
                                    <<running.allResults, running.foursquare.batch,
                                      running.overpass.batch>>)} :
            LET after == [running EXCEPT !.allResults = allResults,
                                         !.counts = Append(@, Len(allResults))]
            IN  IF TierLoopEnds(allResults, Len(running.queried), running.radii)
                THEN /\ returned' = <<[results |-> allResults,
                                       radii |-> after.radii,
                                       queried |-> after.queried,
                                       counts |-> after.counts]>>
                     /\ restaurants' = sortByDistance(allResults)
                     /\ isLoading' = FALSE
                     /\ running' = IdleSearch
                     /\ UNCHANGED <<hookError, isAuthError, issued>>
                ELSE /\ running' = QueryTier(after)
                     /\ issued' = issued + 2
                     /\ UNCHANGED <<restaurants, isLoading, hookError,
                                    isAuthError, returned>>
    /\ UNCHANGED <<started, safeMode, isRetrying, retryCount, exec, toasts, execStarted>>
    /\ UNCHANGED <<proxyVars, geoVars, placeVars, overlapVars, checkVars>>

\* const radii = [...] at the head of searchWithRadiusExpansion, for an
\* initialRadius of any multiple of 250 m up to the bound
BuildTiers(initialRadius) ==
    /\ running = IdleSearch
    /\ running' = [IdleSearch EXCEPT !.pc = "tiers", !.radii = Radii(initialRadius)]
    /\ UNCHANGED <<restaurants, isLoading, hookError, issued, returned, started>>
    /\ UNCHANGED <<proxyVars, retryVars, geoVars, placeVars, overlapVars, checkVars>>

NextTiers == \E k \in 1 .. MaxRadiusSteps : BuildTiers(250 * k)

InitSearch ==
    /\ restaurants = << >>
    /\ isLoading = FALSE
    /\ hookError = << >>
    /\ running = IdleSearch
    /\ issued = 0
    /\ returned = << >>
    /\ started = 0

NextSearch ==
    \/ \E c \in SearchInputs : searchByLocation(c.lat, c.lon)
    \/ \E cityName \in CityNames : searchByCity(cityName)
    \/ \E answer \in GeocodeAnswers : GeocodeReturns(answer)
    \/ FoursquareStrictReturns(Rejected)
    \/ \E body \in StrictBodies :
           FoursquareStrictReturns(Resolved(foursquarePlacesSearch(body).value))
    \/ FoursquareBroadReturns(Rejected)
    \/ \E body \in BroadBodies :
           FoursquareBroadReturns(Resolved(foursquarePlacesSearch(body).value))
    \/ OverpassReturns(Rejected)
    \/ \E text \in OverpassTexts : OverpassReturns(Resolved(text))
    \/ TierCollected

----------------------------------------------------------------------------
(* validateCoordinates applied to given arguments, and overlapping searches *)

\* the arguments tried: the ends of both ranges, the values 0.0001 degree and
\* a degree beyond them, 0, NaN and the infinities
Latitudes ==
    {Num(Deg(-91)), Num(Deg(-90) - 1), Num(Deg(-90)), Num(0), Num(Deg(90)),
     Num(Deg(90) + 1), Num(Deg(91)), NaN, PosInf, NegInf}

Longitudes ==
    {Num(Deg(-181)), Num(Deg(-180) - 1), Num(Deg(-180)), Num(0), Num(Deg(180)),
     Num(Deg(180) + 1), Num(Deg(181)), NaN, PosInf, NegInf}

InitNoCheck == checked = [lat |-> Num(0), lon |-> Num(0), calls |-> << >>]

InitCheck ==
    \E lat \in Latitudes, lon \in Longitudes :
        checked = [lat |-> lat, lon |-> lon, calls |-> << >>]

\* one call of validateCoordinates on the arguments; it reads and writes
\* nothing but its parameters and its result
ValidateCall ==
    /\ Len(checked.calls) < 2
    /\ checked' = [checked EXCEPT
                       !.calls = Append(@, validateCoordinates(checked.lat, checked.lon))]
    /\ UNCHANGED <<proxyVars, retryVars, geoVars, placeVars, hookVars, overlapVars>>

NextCheck == ValidateCall

\* ---- calls of the two searches that overlap.  Neither function looks at
\* isLoading or at an earlier call; the tracking effect of SearchSection
\* calls onLocationSearch without looking at it either.  Here
\* searchWithRadiusExpansion is one await that resolves with a merged list:
\* both providers' failures are caught inside it.  Slot i holds the i-th call
\* that went past its input checks.

IdleInvocation == [pc |-> "idle", origin |-> <<0, 0>>, shown |-> << >>]

InitOverlap == invocations = [i \in 1 .. MaxOverlap |-> IdleInvocation]

OverlapInputs ==
    {[lat |-> Num(10), lon |-> Num(10)],
     [lat |-> Num(20), lon |-> Num(20)],
     [lat |-> NaN, lon |-> Num(10)]}

\* what searchWithRadiusExpansion resolves with: nothing, one place, or two
\* places that are not in the order of their distances
ExpansionResults ==
    LET far  == CHOOSE r \in PlaceSamples : r.id = "fsq-1" /\ r.latitude = 0
        near == CHOOSE r \in PlaceSamples : r.id = "osm-node-1" /\ r.latitude = 9
    IN  {<< >>, <<far>>, <<far, near>>}

NextSlot(i) ==
    /\ invocations[i].pc = "idle"
    /\ i > 1 => invocations[i - 1].pc # "idle"

OverlapFrame ==
    /\ UNCHANGED <<running, issued, returned, started>>
    /\ UNCHANGED <<safeMode, isRetrying, retryCount, exec, toasts, execStarted>>
    /\ UNCHANGED <<proxyVars, geoVars, placeVars, checkVars>>

\* searchByLocation up to its await
LocationSearchBegins(i, latitude, longitude) ==
    /\ NextSlot(i)
    /\ isAuthError' = FALSE
    /\ LET validation == validateCoordinates(latitude, longitude)
       IN  IF ~validation.isValid
           THEN /\ hookError' = <<<<validation.reason>>>>
                /\ UNCHANGED <<restaurants, isLoading, invocations>>
           ELSE /\ isLoading' = TRUE
                /\ hookError' = << >>
                /\ invocations' = [invocations EXCEPT ![i] =
                       [pc |-> "expanding", origin |-> <<latitude.v, longitude.v>>,
                        shown |-> << >>]]
                /\ UNCHANGED restaurants
    /\ OverlapFrame

\* searchByCity up to its first await
CitySearchBegins(i, cityName) ==
    /\ NextSlot(i)
    /\ IF trim(cityName) = << >>
       THEN UNCHANGED <<restaurants, isLoading, hookError, isAuthError, invocations>>
       ELSE /\ isLoading' = TRUE
            /\ hookError' = << >>
            /\ isAuthError' = FALSE
            /\ invocations' = [invocations EXCEPT ![i].pc = "geocoding"]
            /\ UNCHANGED restaurants
    /\ OverlapFrame

\* the geocoding call of the i-th search settles
CityGeocodeReturns(i, answer) ==
    /\ invocations[i].pc = "geocoding"
    /\ LET errorState == getUserFriendlyError(answer.error, 0)
           validation == validateCoordinates(answer.lat, answer.lon)
           GiveUp(message, auth) ==
               /\ hookError' = <<message>>
               /\ isAuthError' = auth
               /\ restaurants' = << >>
               /\ isLoading' = FALSE
               /\ invocations' = [invocations EXCEPT ![i].pc = "done",
                                                     ![i].shown = << >>]
       IN  CASE answer.kind \in {"throws", "sentinel"} ->
                    IF errorState.isAuthError
                    THEN GiveUp(errorState.message, TRUE)
                    ELSE GiveUp(<<"Unable to find that location. Please check the spelling and try again.">>,
                                isAuthError)
             [] answer.kind = "empty" ->
                    GiveUp(<<"City not found. Please check the spelling or try a different location.">>,
                           isAuthError)
             [] OTHER ->
                    IF ~validation.isValid
                    THEN GiveUp(<<validation.reason>>, isAuthError)
                    ELSE /\ invocations' = [invocations EXCEPT
                                ![i].pc = "expanding",
                                ![i].origin = <<answer.lat.v, answer.lon.v>>]
                         /\ UNCHANGED <<restaurants, isLoading, hookError, isAuthError>>
    /\ OverlapFrame

\* searchWithRadiusExpansion resolves for the i-th search: the rest of
\* searchByLocation or searchByCity, its finally block included
ExpansionReturns(i, found) ==
    /\ invocations[i].pc = "expanding"
    /\ LET list == IF Len(found) = 0 THEN << >> ELSE sortByDistance(found)
       IN  /\ restaurants' = list
           /\ invocations' = [invocations EXCEPT ![i].pc = "done", ![i].shown = list]
    /\ isLoading' = FALSE
    /\ UNCHANGED <<hookError, isAuthError>>
    /\ OverlapFrame

NextOverlap ==
    \/ \E i \in 1 .. MaxOverlap, c \in OverlapInputs : LocationSearchBegins(i, c.lat, c.lon)
    \/ \E i \in 1 .. MaxOverlap, cityName \in CityNames : CitySearchBegins(i, cityName)
    \/ \E i \in 1 .. MaxOverlap, answer \in GeocodeAnswers : CityGeocodeReturns(i, answer)
    \/ \E i \in 1 .. MaxOverlap, found \in ExpansionResults : ExpansionReturns(i, found)

----------------------------------------------------------------------------
(* Specifications: one per component; the other components stay in their
   initial state.  SpecProxy runs the current actor (main.mo), SpecLegacyProxy
   the earlier actor that traps when its retries are exhausted.  SpecGeo lets
   the user click at any time, so callbacks of an earlier acquisition attempt
   may arrive during the next one; SpecGeoAttempt takes the attempts one at
   a time.  SpecTracking runs continuous tracking with the clock, SpecGeoModes
   the attempts of SpecGeoAttempt together with tracking.  SpecProxyAdmin adds
   the admin operations and ping to the current actor; SpecProxyLongRun starts
   the proxy with an error log one entry below its limit. *)

InitAll == InitProxy /\ InitRetry /\ InitGeo /\ InitNoPlaces /\ InitSearch /\ InitOverlap /\ InitNoCheck

InitProxySpec == InitAll /\ legacy = FALSE /\ secureContext = TRUE /\ geoSupported = TRUE

InitLegacySpec == InitAll /\ legacy = TRUE /\ secureContext = TRUE /\ geoSupported = TRUE

InitRetrySpec == InitAll /\ legacy = FALSE /\ secureContext = TRUE /\ geoSupported = TRUE

InitGeoSpec == InitAll /\ legacy = FALSE

SpecProxy == InitProxySpec /\ [][NextProxy]_vars

SpecLegacyProxy == InitLegacySpec /\ [][NextProxy]_vars

InitLongRunSpec ==
    InitLongRun /\ InitRetry /\ InitGeo /\ InitNoPlaces /\ InitSearch /\ InitOverlap /\ InitNoCheck
    /\ secureContext = TRUE /\ geoSupported = TRUE

InitAdminSpec ==
    InitAdmin /\ InitRetry /\ InitGeo /\ InitNoPlaces /\ InitSearch /\ InitOverlap /\ InitNoCheck
    /\ secureContext = TRUE /\ geoSupported = TRUE

SpecProxyAdmin == InitAdminSpec /\ [][NextProxyAdmin]_vars

SpecProxyLongRun == InitLongRunSpec /\ [][NextProxy]_vars

SpecRetry == InitRetrySpec /\ [][NextRetry]_vars

SpecGeo == InitGeoSpec /\ [][NextGeo]_vars

SpecGeoAttempt == InitGeoSpec /\ [][NextGeoAttempt]_vars

SpecTracking == InitGeoSpec /\ [][NextTracking]_vars

SpecGeoModes == InitGeoSpec /\ [][NextGeoModes]_vars

\* the actor with or without a stored Foursquare key
InitSearchSpec ==
    /\ \E key \in {<< >>, <<<<"fsq-key-1">>>>} : InitKeyed(0, key)
    /\ InitRetry /\ InitGeo /\ InitNoPlaces /\ InitSearch /\ InitOverlap /\ InitNoCheck
    /\ secureContext = TRUE /\ geoSupported = TRUE

SpecSearch == InitSearchSpec /\ [][NextSearch]_vars

SpecTiers == InitProxySpec /\ [][NextTiers]_vars

\* up to MaxOverlap calls of the two searches, each one free to settle
\* before or after the others
SpecOverlap == InitProxySpec /\ [][NextOverlap]_vars

\* validateCoordinates on every pair of the sample latitudes and longitudes
InitCheckSpec ==
    /\ InitProxy /\ InitRetry /\ InitGeo /\ InitNoPlaces /\ InitSearch /\ InitOverlap
    /\ InitCheck
    /\ legacy = FALSE /\ secureContext = TRUE /\ geoSupported = TRUE

SpecCheck == InitCheckSpec /\ [][NextCheck]_vars

InitPlacesSpec ==
    /\ InitProxy /\ InitRetry /\ InitGeo /\ InitPlaces /\ InitSearch /\ InitOverlap /\ InitNoCheck
    /\ legacy = FALSE /\ secureContext = TRUE /\ geoSupported = TRUE

SpecPlaces == InitPlacesSpec /\ [][NextPlaces]_vars

----------------------------------------------------------------------------
(* ResilienceProxy: claims C1 - C3 *)

\* C1: a call whose key has a cache entry with now - storedAt < 5 minutes returns
\* that entry's payload and makes no upstream request; with no entry, or with
\* now - storedAt >= 5 minutes, the call issues an upstream request.
C1_CacheFreshness ==
    [][\A c \in Callers, m \in Methods, u \in Urls, b \in Bodies :
          ProxyCall(c, m, u, b) =>
              LET key == CacheKey(m, u, b)
              IN  IF key \in DOMAIN apiCache
                     /\ now - apiCache[key].timestamp < cacheValidity
                  THEN /\ call'[c].pc = "returned"
                       /\ call'[c].result = apiCache[key].data
                       /\ call'[c].upstream = 0
                       /\ upstreamIssued' = upstreamIssued
                  ELSE /\ call'[c].pc = "awaiting"
                       /\ call'[c].upstream = 1
                       /\ upstreamIssued' = upstreamIssued + 1]_vars

\* a call was answered from an entry one minute short of the validity period:
\* the only outcall so far is the one that filled the entry
C1_Witness ==
    \E c \in Callers :
        /\ call[c].pc = "returned" /\ call[c].hit
        /\ LET k == CacheKey(call[c].method, call[c].url, call[c].body)
           IN  /\ k \in DOMAIN apiCache
               /\ now - apiCache[k].timestamp = cacheValidity - 1
               /\ call[c].result = apiCache[k].data
        /\ upstreamIssued = 1
        /\ requestStats.totalRequests = 1

\* C2: a call that misses the cache makes at most 3 upstream attempts; it stops
\* at the first attempt that succeeds, and it has made exactly 3 when it gives up.
C2_AtMostThreeAttempts ==
    \A c \in Callers :
        /\ call[c].upstream <= 3
        /\ call[c].hit => call[c].upstream = 0
        /\ (call[c].pc = "awaiting") => call[c].upstream = call[c].attempts + 1
        /\ (call[c].pc = "returned" /\ ~call[c].hit
              /\ ~StartsWith(call[c].result, ErrorMarker))
             => call[c].upstream = call[c].attempts + 1
        /\ (call[c].pc = "returned" /\ StartsWith(call[c].result, ErrorMarker))
             => call[c].upstream = 3 /\ call[c].attempts = 3

\* a call gave up after three failed attempts and returned the marker string
C2_Witness ==
    \E c \in Callers :
        /\ call[c].pc = "returned" /\ ~call[c].hit
        /\ call[c].upstream = 3 /\ call[c].attempts = 3
        /\ StartsWith(call[c].result, ErrorMarker)

\* C3: when every upstream attempt of a call has failed, the call completes
\* normally with a string that begins with "Error:"; it never traps.
C3_ExhaustionReturnsSentinel ==
    \A c \in Callers :
        call[c].attempts > retryLimit =>
            /\ call[c].pc = "returned"
            /\ StartsWith(call[c].result, ErrorMarker)

----------------------------------------------------------------------------
(* ClientRetryOrchestrator: claims C4 - C8 *)

\* C4: an operation that resolves with a string beginning "Error:" is not
\* reported by executeWithRetry as a success: the call does not return it.
C4_SentinelIsFailure ==
    \A e \in Execs :
        exec[e].pc = "returned" => ~IsBackendErrorResponse(exec[e].result)

\* C5: no delay precedes the first invocation, the delay before the attempt with
\* index i is 2000 * i ms, and a call that ends on a retryable error has invoked
\* the operation exactly 3 times, slept 2000 ms and 4000 ms, and throws that error.
C5_ThreeAttemptsLinearBackoff ==
    \A e \in Execs :
        /\ exec[e].pc = "operating" => Len(exec[e].delays) = exec[e].invocations - 1
        /\ \A i \in 1 .. Len(exec[e].delays) : exec[e].delays[i] = 2000 * i
        /\ (exec[e].pc = "threw"
              /\ ErrorClass(exec[e].lastError) \notin {"auth", "rate-limited"})
             => /\ exec[e].invocations = 3
                /\ exec[e].delays = <<2000, 4000>>
                /\ exec[e].thrown = exec[e].lastError

\* a call ended after three failures, the last of them a timeout
C5_Witness ==
    \E e \in Execs :
        /\ exec[e].pc = "threw" /\ exec[e].invocations = 3
        /\ ErrorClass(exec[e].thrown) = "timeout"

\* C6: after an attempt fails with an authorization / permission error or a
\* rate-limit error the operation is not invoked again in that call: the call
\* is never waiting for, or running, a retry that follows such an error.
C6_NoRetryAfterTerminalError ==
    \A e \in Execs :
        /\ (exec[e].pc \in {"delaying", "operating"} /\ exec[e].attempt > 0)
             => ErrorClass(exec[e].lastError) \notin {"auth", "rate-limited"}
        /\ (exec[e].pc = "threw"
              /\ ErrorClass(exec[e].lastError) \in {"auth", "rate-limited"})
             => exec[e].thrown = exec[e].lastError

\* a call was retried once and ended on a rate-limit error at its second attempt
C6_Witness ==
    \E e \in Execs :
        /\ exec[e].pc = "threw" /\ exec[e].invocations = 2
        /\ ErrorClass(exec[e].lastError) = "rate-limited"

\* C7: whenever an executeWithRetry call succeeds, at its first attempt or at a
\* later one, the safe-mode flag is cleared afterwards.
C7_SuccessClearsSafeMode ==
    [][(\E e \in Execs : exec[e].pc = "operating" /\ exec'[e].pc = "returned")
          => ~safeMode']_vars

\* C8: the safe-mode flag is raised only by a call that ends in failure with a
\* last error of the service-recovering, replication or timeout class.
C8_SafeModeOnlyOnOutage ==
    [][(~safeMode /\ safeMode') =>
          \E e \in Execs :
              /\ exec[e].pc = "operating" /\ exec'[e].pc = "threw"
              /\ ErrorClass(exec'[e].thrown)
                    \in {"service-recovering", "replication", "timeout"}]_vars

\* safe mode is up after a call that ended on a replication error at its third
\* attempt
C8_Witness ==
    /\ safeMode
    /\ "error" \in toasts
    /\ \E e \in Execs :
          /\ exec[e].pc = "threw" /\ exec[e].invocations = 3
          /\ ErrorClass(exec[e].thrown) = "replication"

----------------------------------------------------------------------------
(* GeoAcquisition: claims C9 - C10 *)

C10_LateGpsCallbackIsNoOp ==
    /\ [][(/\ fallbackExecutedRef
           /\ \E r \in pending : /\ r.kind \in {"gpsHigh", "gpsLow", "gpsDone"}
                                 /\ r.att = attempt
                                 /\ r \notin pending')
          => /\ geoState' = geoState
             /\ fallbackExecutedRef' = fallbackExecutedRef
             /\ searches' = searches]_vars
    /\ [](searches <= 1)

\* C11: a permission-denied error of the high-accuracy request moves the
\* acquisition to permission-denied with canRetry = TRUE, issues no low-accuracy
\* request and no IP lookup, and leaves the user a control that starts a new
\* attempt.
C11_HighPermissionDeniedCanRetry ==
    [][\A r \in pending :
          (r.kind = "gpsHigh" /\ handleGeolocationError(r, "PERMISSION_DENIED"))
             => /\ geoState'.stage = "permission-denied"
                /\ geoState'.canRetry
                /\ \A t \in pending' \ pending : t.kind \notin {"gpsLow", "ipLookup"}
                /\ ipLookups' = ipLookups
                /\ (RetryButtonShown \/ DetectButtonEnabled)']_vars

\* C12: every failure of the low-accuracy request, a permission-denied error
\* included, leads to the IP fallback; the attempt does not end in
\* permission-denied from this stage.
C12_LowFailureFallsBack ==
    [][\A r \in pending, code \in GpsErrorCodes :
          (r.kind = "gpsLow" /\ handleGeolocationError(r, code))
             => /\ geoState'.stage # "permission-denied"
                /\ fallbackExecutedRef']_vars

\* C13: no reachable state has a one-time detection attempt in flight while a
\* continuous position watch is subscribed.
C13_ModesExclusive == ~(inFlightRef /\ watches # {})

\* C14: after tracking is stopped no position watch opened by startTracking
\* remains subscribed, and the last-accepted position and the rate limiter are
\* reset, so that the first valid position of the next session triggers a search.
C14_StopLeavesNothingBehind ==
    geoWatch.status = "stopped"
        => /\ watches = {}
           /\ watchIdRef = 0
           /\ lastSearchCoordsRef = <<>>
           /\ lastExecutionTime = 0

\* C15: in a tracking session a position triggers a search only if (a) there is
\* no previously accepted position or its latitude or longitude differs from
\* the last accepted one by more than 0.0005 degree, and (b) at least 10 000 ms
\* have passed since the last accepted position; so two consecutive
\* tracking-triggered searches of a session are at least 10 s apart.
C15_TrackingSearchFiltered ==
    /\ [][(trackTimes' # trackTimes /\ trackTimes' # <<>>) =>
            LET p == handed'[1].coords
                Dist(x, y) == IF x >= y THEN x - y ELSE y - x
            IN  /\ handed'[1].mode = "tracking"
                /\ geoWatch'.position = <<p>>
                /\ \/ lastSearchCoordsRef = <<>>
                   \/ Dist(p.lat.v, lastSearchCoordsRef[1].lat.v) > 5
                   \/ Dist(p.lon.v, lastSearchCoordsRef[1].lon.v) > 5
                /\ lastSearchCoordsRef # <<>> => dateNow - lastExecutionTime >= 10000]_vars
    /\ [](Len(trackTimes) = 2 => trackTimes[2] - trackTimes[1] >= 10000)

\* two searches of one session, exactly 10 s apart, the second for a position
\* more than 0.0005 degree away from the first
C15_Witness ==
    /\ Len(trackTimes) = 2
    /\ trackTimes[2] - trackTimes[1] = 10000
    /\ handed = <<[mode |-> "tracking",
                   coords |-> [lat |-> Num(Deg(48)), lon |-> Num(Deg(2) + 6)]]>>
    /\ lastSearchCoordsRef = <<handed[1].coords>>

\* C16: every coordinate handed to the search pipeline (one-time GPS, IP
\* fallback or continuous tracking) is finite, with latitude in [-90, 90] and
\* longitude in [-180, 180].
C16_HandedCoordinatesValid ==
    handed # <<>> =>
        LET c == handed[1].coords
        IN  /\ c.lat.k = "finite" /\ c.lon.k = "finite"
            /\ -900000 <= c.lat.v /\ c.lat.v <= 900000
            /\ -1800000 <= c.lon.v /\ c.lon.v <= 1800000

\* a tracking-triggered search after a one-time acquisition that ended in a
\* search of its own
C16_Witness ==
    /\ handed # <<>> /\ handed[1].mode = "tracking"
    /\ searches = 1 /\ geoState.stage = "success"

\* C17: the error log never holds more than 100 entries, after any sequence of
\* failed upstream attempts.
C17_ErrorLogBounded == Cardinality(DOMAIN errorLog) <= 100

\* C18: the consecutive-error counter is incremented by every failed upstream
\* attempt, set to 0 by every successful one, and set to 0 as soon as it
\* reaches 10; between proxy steps it is between 0 and 9, ping leaves it there,
\* and no proxy call is rejected.
C18_ConsecutiveErrorsBelowTen ==
    /\ [](consecutiveErrors \in 0 .. 9)
    /\ [](\A c \in Callers : call[c].pc # "trapped")
    /\ [][/\ \A c \in Callers, e \in UpstreamErrors :
               UpstreamFailure(c, e) =>
                   consecutiveErrors' = IF consecutiveErrors + 1 = 10 THEN 0
                                        ELSE consecutiveErrors + 1
          /\ \A c \in Callers, r \in Payloads :
               UpstreamSuccess(c, r) => consecutiveErrors' = 0
          /\ ping => consecutiveErrors' = consecutiveErrors]_vars

\* the tenth consecutive failure has just set the counter back to 0
C18_Witness ==
    /\ consecutiveErrors = 0
    /\ logCounter = 10
    /\ requestStats.failedRequests = 10
    /\ requestStats.successfulRequests = 0

\* C19: each of the request counters total, succeeded and failed never
\* decreases, across any interleaving of proxy calls and admin operations.
C19_RequestCountersMonotone ==
    [][/\ requestStats'.totalRequests >= requestStats.totalRequests
       /\ requestStats'.successfulRequests >= requestStats.successfulRequests
       /\ requestStats'.failedRequests >= requestStats.failedRequests]_vars

\* one failed and one successful attempt counted, and the cache cleared by an
\* admin afterwards
C19_Witness ==
    /\ requestStats.totalRequests = 2
    /\ requestStats.successfulRequests = 1
    /\ requestStats.failedRequests = 1
    /\ apiCache = << >>

\* C20: a clear with a prefix by an admin removes exactly the cache keys that
\* start with the prefix and leaves every other entry, and the rest of the
\* actor, unchanged; a clear without a prefix removes all entries; either clear
\* by a caller who is not an admin changes nothing.
C20_CacheClear ==
    [][/\ \A p \in Principals, prefix \in Prefixes :
            clearCachePrefix(p, prefix) =>
                LET starts(k) == /\ Len(k) >= Len(prefix)
                                 /\ \A i \in 1 .. Len(prefix) : k[i] = prefix[i]
                IN  /\ p = "admin" =>
                          /\ DOMAIN apiCache' = {k \in DOMAIN apiCache : ~starts(k)}
                          /\ \A k \in DOMAIN apiCache' : apiCache'[k] = apiCache[k]
                    /\ p # "admin" => apiCache' = apiCache
                    /\ UNCHANGED <<errorLog, logCounter, consecutiveErrors,
                                   requestStats, call>>
       /\ \A p \in Principals :
            clearApiCache(p) =>
                /\ p = "admin" => DOMAIN apiCache' = {}
                /\ p # "admin" => apiCache' = apiCache
                /\ UNCHANGED <<errorLog, logCounter, consecutiveErrors,
                               requestStats, call>>]_vars

\* both keys were cached and a prefix clear has removed the GET key alone: the
\* last call fetched the GET payload, whose entry is gone, and the POST entry
\* is still there
C20_Witness ==
    /\ DOMAIN apiCache = {CacheKey("POST", "u1", "q1")}
    /\ requestStats.successfulRequests = 2
    /\ call[1].method = "GET" /\ call[1].pc = "returned" /\ ~call[1].hit
    /\ call[1].attempts = 0

\* C21: a caller without admin permission can read only the cache TTL and the
\* aggregate request counters; the cached payloads (whole cache or per key),
\* the per-key time remaining and the error log are not returned to it.
C21_DiagnosticsAdminGated ==
    \A p \in Principals :
        ~hasPermission(p, "admin") =>
            /\ getCacheExpiration(p).ok /\ getRequestStats(p).ok
            /\ ~getErrorLog(p).ok
            /\ ~getCacheContents(p).ok
            /\ \A key \in DOMAIN apiCache :
                   /\ ~getCachedData(p, key).ok
                   /\ ~getCacheTimeRemaining(p, key).ok

\* C22: the stored credential is never part of a value the actor returns: for
\* every operation that reads it and every caller, the reply does not hold it.
C22_CredentialNeverReturned ==
    \A p \in Principals, body \in Payloads :
        foursquareApiKey # << >> =>
            /\ getFoursquareApiKey(p).value # foursquareApiKey
            /\ \A i \in 1 .. Len(foursquarePlacesSearch(body).value) :
                   <<foursquarePlacesSearch(body).value[i]>> # foursquareApiKey[1]

----------------------------------------------------------------------------
(* Merging and ordering places: claims C25 - C27 *)

\* C25: when mergeAndDeduplicateRestaurants merges candidates into an earlier
\* record, the survivor keeps the earlier record's value for every field that
\* record has (a non-empty text, a defined number) and takes a candidate's
\* value only for a field it lacks; in particular the id, name, latitude and
\* longitude of the first survivor are those of the first input.
C25_SurvivorKeepsEarlierFields ==
    (results # << >> /\ flat(sources) # << >>) =>
        LET first    == flat(sources)[1]
            survivor == results[1][1]
        IN  /\ first.id # "" => survivor.id = first.id
            /\ first.name # << >> => survivor.name = first.name
            /\ survivor.latitude = first.latitude
            /\ survivor.longitude = first.longitude
            /\ first.rating # << >> => survivor.rating = first.rating
            /\ first.distance # << >> => survivor.distance = first.distance
            /\ (first.phone # << >> /\ first.phone # <<"">>) =>
                   survivor.phone = first.phone

PairwiseNonDuplicates(B) ==
    \A i, j \in 1 .. Len(B) : i # j => ~areDuplicates(B[i], B[j])

\* C26: for a batch B whose entries are pairwise non-duplicates,
\* mergeAndDeduplicateRestaurants([B, B]) has as many records as
\* mergeAndDeduplicateRestaurants([B]).
C26_DoubledBatchSameCount ==
    (/\ results # << >>
     /\ Len(sources) = 2
     /\ sources[1] = sources[2]
     /\ PairwiseNonDuplicates(sources[1])) =>
        Len(results[1]) = Len(mergeAndDeduplicateRestaurants(<<sources[1]>>))

C26_Witness ==
    /\ results # << >>
    /\ sources[1] = sources[2]
    /\ Len(sources[1]) = MaxPlaces
    /\ PairwiseNonDuplicates(sources[1])
    /\ Len(results[1]) = MaxPlaces

\* C27: sortByDistance returns a permutation of its input in which the places
\* with a defined distance come first in ascending distance, the places with
\* undefined distance come after them, and places with equal distance or both
\* with undefined distance keep their relative input order.
C27_SortedByDistanceStable ==
    sorted # << >> =>
        LET input  == results[1]
            output == sorted[1]
        IN  /\ Len(output) = Len(input)
            /\ \E perm \in [1 .. Len(input) -> 1 .. Len(input)] :
                   /\ \A i, j \in 1 .. Len(input) : i # j => perm[i] # perm[j]
                   /\ \A i \in 1 .. Len(input) : output[i] = input[perm[i]]
                   /\ \A i, j \in 1 .. Len(input) :
                          i < j =>
                              LET a == input[perm[i]].distance
                                  b == input[perm[j]].distance
                              IN  /\ a = << >> => b = << >>
                                  /\ (a # << >> /\ b # << >>) => a[1] <= b[1]
                                  /\ a = b => perm[i] < perm[j]

C27_Witness ==
    /\ sorted # << >>
    /\ Len(results[1]) = 3
    /\ results[1][1].distance = << >>
    /\ results[1][2].distance = <<120>>
    /\ results[1][3].distance = <<120>>
    /\ results[1][2] # results[1][3]
    /\ sorted[1] = <<results[1][2], results[1][3], results[1][1]>>

----------------------------------------------------------------------------
(* Provider queries, radius tiers and input checks: claims C23, C24, C28 - C30 *)

\* C23: the provider query of a tier yields two batches and never throws: a
\* rejected call, a sentinel error or the not-configured reply of one
\* provider makes that provider's batch empty, and the other provider's
\* batch is what that provider's payload holds.
C23_ProviderFailureIsolated ==
    running.pc = "tier" =>
        LET f == running.foursquare
            o == running.overpass
            failed(reply) == reply.rejected \/ StartsWith(reply.text, ErrorMarker)
        IN  /\ ~f.threw /\ ~o.threw
            /\ (f.pc = "done" /\ failed(f.reply)) => f.batch = << >>
            /\ (o.pc = "done" /\ failed(o.reply)) => o.batch = << >>
            /\ (f.pc = "done" /\ f.reply.text = JsonText("results", "many")) =>
                   /\ Len(f.batch) = 6
                   /\ f.batch = parseVenues(FoursquareVenues("many"))
            /\ (o.pc = "done" /\ ~failed(o.reply)) =>
                   o.batch = parseOverpassResponse(JSONparse(o.reply.text),
                                                   running.origin[1], running.origin[2])
            /\ (o.pc = "done" /\ o.reply.text = JsonText("elements", "many")) =>
                   Len(o.batch) = 6

C23_Witness ==
    /\ running.pc = "tier"
    /\ running.foursquare.pc = "done"
    /\ running.foursquare.reply.text = NotConfigured
    /\ running.foursquare.batch = << >>
    /\ running.overpass.pc = "done"
    /\ running.overpass.reply.text = JsonText("elements", "many")
    /\ Len(running.overpass.batch) = 6

\* C24: neither parser builds a place for an entry without coordinates: every
\* place of a Foursquare batch comes from a venue that has geocodes and
\* carries their latitude and longitude, and every place of an Overpass batch
\* comes from an element with coordinates and carries them.
C24_NoPlaceWithoutCoordinates ==
    (running.pc = "tier" /\ running.foursquare.pc = "done"
                        /\ running.overpass.pc = "done") =>
        LET f == running.foursquare
            o == running.overpass
            elements == JSONparse(o.reply.text).elements
        IN  /\ \A i \in 1 .. Len(f.batch) :
                   /\ f.venues[i].geocodes # << >>
                   /\ f.batch[i].latitude = f.venues[i].geocodes[1].latitude
                   /\ f.batch[i].longitude = f.venues[i].geocodes[1].longitude
            /\ \A i \in 1 .. Len(o.batch) :
                   /\ elements # << >>
                   /\ \E j \in 1 .. Len(elements[1]) :
                          LET e == elements[1][j]
                          IN  \/ /\ e.lat = <<o.batch[i].latitude>>
                                 /\ e.lon = <<o.batch[i].longitude>>
                              \/ /\ e.center # << >>
                                 /\ e.center[1].lat = o.batch[i].latitude
                                 /\ e.center[1].lon = o.batch[i].longitude

StrictlyIncreasing(seq) == \A i \in 1 .. Len(seq) - 1 : seq[i] < seq[i + 1]

C29_TierLoopStops ==
    /\ Len(running.queried) <= 3
    /\ StrictlyIncreasing(running.queried)
    /\ \A i \in 1 .. Len(running.counts) : running.counts[i] < 5
    /\ returned # << >> =>
           LET r == returned[1]
               n == Len(r.queried)
           IN  /\ n >= 1 /\ n <= 3
               /\ r.queried = SubSeq(r.radii, 1, n)
               /\ StrictlyIncreasing(r.queried)
               /\ Len(r.counts) = n
               /\ \A i \in 1 .. n - 1 : r.counts[i] < 5
               /\ r.counts[n] >= 5 \/ n = Len(r.radii)
               /\ Len(r.results) = r.counts[n]

C29_Witness ==
    /\ returned # << >>
    /\ returned[1].counts = <<0, 0, 6>>
    /\ returned[1].queried = <<10000, 20000, 30000>>
    /\ Len(returned[1].results) = 6
    /\ running.pc = "idle"

----------------------------------------------------------------------------
(* Limiter, validator, keyword provider and merge: claims C31 - C34 *)

C32_ValidExactlyInRange ==
    /\ \A i \in 1 .. Len(checked.calls) :
           checked.calls[i].isValid <=>
               /\ checked.lat.k = "finite" /\ checked.lon.k = "finite"
               /\ -900000 <= checked.lat.v /\ checked.lat.v <= 900000
               /\ -1800000 <= checked.lon.v /\ checked.lon.v <= 1800000
    /\ \A i, j \in 1 .. Len(checked.calls) : checked.calls[i] = checked.calls[j]

C32_Witness ==
    /\ checked.lat = Num(-900000)
    /\ checked.lon = Num(1800000)
    /\ Len(checked.calls) = 2
    /\ checked.calls[1].isValid
    /\ checked.calls[2].isValid

\* C33: the broader Foursquare query is issued exactly when the strict query
\* succeeded with fewer than 5 venues; the batch is then the strict venues
\* followed by the broader venues whose fsq_id no strict venue has, and the
\* strict venues alone when the broader query failed; a failed strict query
\* or the not-configured reply gives an empty batch and no broader query.
C33_BroadQueryOnlyWhenSparse ==
    [][/\ \A reply \in {Rejected} \cup {Resolved(t) : t \in StrictBodies \cup {NotConfigured}} :
              FoursquareStrictReturns(reply) =>
                  LET sparse == /\ ~reply.rejected
                                /\ reply.text \in {JsonText("results", "none"),
                                                   JsonText("results", "few")}
                      full   == ~reply.rejected /\ reply.text = JsonText("results", "many")
                      after  == running'.foursquare
                  IN  /\ after.pc = "broad" <=> sparse
                      /\ issued' = IF sparse THEN issued + 1 ELSE issued
                      /\ full => /\ after.pc = "done"
                                 /\ after.batch = parseVenues(FoursquareVenues("many"))
                      /\ (~sparse /\ ~full) => after.pc = "done" /\ after.batch = << >>
       /\ \A reply \in {Rejected} \cup {Resolved(t) : t \in BroadBodies \cup {NotConfigured}} :
              FoursquareBroadReturns(reply) =>
                  LET strict    == running.foursquare.venues
                      strictIds == {strict[i].fsq_id : i \in 1 .. Len(strict)}
                      broad     == IF ~reply.rejected /\ reply.text = JsonText("results", "other")
                                   THEN FoursquareVenues("other") ELSE << >>
                      fresh(v)  == v.fsq_id \notin strictIds
                      expected  == strict \o SelectSeq(broad, fresh)
                      after     == running'.foursquare
                  IN  /\ after.pc = "done"
                      /\ issued' = issued
                      /\ Len(strict) < 5
                      /\ after.batch = IF expected = << >> THEN << >>
                                       ELSE parseVenues(expected)]_vars

C33_Witness ==
    /\ running.pc = "tier"
    /\ running.foursquare.pc = "done"
    /\ running.foursquare.reply.text = JsonText("results", "few")
    /\ Len(running.foursquare.batch) = 2
    /\ running.foursquare.batch[1].id = "fsq-1"
    /\ running.foursquare.batch[2].id = "fsq-7"

\* C34: for an input A, B, C in which A matches B, B matches C and A does not
\* match C, mergeAndDeduplicateRestaurants returns two records: the merge of
\* A with B, followed by C.
C34_MergeNotTransitive ==
    (results # << >> /\ Len(sources) = 2 /\ Len(flat(sources)) = 3) =>
        LET A == flat(sources)[1]
            B == flat(sources)[2]
            C == flat(sources)[3]
        IN  (areDuplicates(A, B) /\ areDuplicates(B, C) /\ ~areDuplicates(A, C)) =>
                results[1] = <<mergeRestaurants(A, B), C>>

----------------------------------------------------------------------------
(* The merged accumulator: claim C40 *)

\* C40: no two records of a list mergeAndDeduplicateRestaurants returned are
\* duplicates of each other, and merging the returned accumulator again with
\* two empty batches returns as many records as it holds.
C40_OutputHoldsNoDuplicates ==
    results # << >> =>
        /\ PairwiseNonDuplicates(results[1])
        /\ (Len(sources) = 3 /\ sources[2] = << >> /\ sources[3] = << >>) =>
               Len(results[1]) = Len(sources[1])

----------------------------------------------------------------------------
(* Acquisition and retry state: claims C35, C36, C38 *)

\* C35: an acquisition attempt in flight always moves on without a GPS
\* callback: while the in-flight flag is set, a stage timer, the IP lookup or
\* a 500 ms validating timer is outstanding, so that the attempt reaches
\* success, failed or permission-denied and clears the flag even if no GPS
\* request ever calls back.
C35_AttemptMovesWithoutGps ==
    inFlightRef =>
        \E t \in pending :
            t.kind \in {"highTimer", "lowTimer", "ipLookup", "gpsDone", "ipDone"}

\* C36: whenever the stage is success, the location source is GPS or IP, a
\* coordinate is present and no error message is set.
C36_SuccessHasSourceAndCoordinates ==
    geoState.stage = "success" =>
        /\ geoState.locationSource \in {"GPS", "IP"}
        /\ geoState.coordinates # << >>
        /\ geoState.errorMessage = "null"

\* C38: whenever every executeWithRetry call made so far has finished, by its
\* result or by throwing on any path, isRetrying is false and retryCount is 0.
C38_RetryStateClearedAtEnd ==
    (\A e \in Execs : exec[e].pc \in {"returned", "threw"}) =>
        /\ ~isRetrying
        /\ retryCount = 0

----------------------------------------------------------------------------
(* ApiProxyCache, what a call writes: claim C39 *)

\* C39: a proxy call writes the cache only with the payload of a successful
\* upstream attempt.  Every step that changes apiCache is the return of a
\* call with the response of its outcall, stored under the key of that call
\* at the current time, every other entry kept; a failed attempt, the last
\* one that returns the sentinel included, leaves apiCache as it was.
C39_CacheWrittenOnlyOnSuccess ==
    [][ /\ apiCache' # apiCache =>
             \E c \in Callers :
                 LET key == CacheKey(call[c].method, call[c].url, call[c].body)
                 IN /\ call[c].pc = "awaiting"
                    /\ call'[c].pc = "returned"
                    /\ call'[c].result \in Payloads
                    /\ ~StartsWith(call'[c].result, ErrorMarker)
                    /\ DOMAIN apiCache' = DOMAIN apiCache \cup {key}
                    /\ apiCache'[key] = [data |-> call'[c].result, timestamp |-> now]
                    /\ \A k \in DOMAIN apiCache : k # key => apiCache'[k] = apiCache[k]
        /\ \A c \in Callers, e \in UpstreamErrors :
               UpstreamFailure(c, e) => apiCache' = apiCache
      ]_vars

\* a call returned the sentinel after all its attempts, and the cache holds
\* nothing under its key: the next call for the key goes upstream again
C39_Witness ==
    \E c \in Callers :
        /\ call[c].pc = "returned"
        /\ call[c].attempts > retryLimit
        /\ StartsWith(call[c].result, ErrorMarker)
        /\ CacheKey(call[c].method, call[c].url, call[c].body) \notin DOMAIN apiCache

----------------------------------------------------------------------------
(* Overlapping searches: claim C37 *)

\* the search that was started last
LastStarted ==
    CHOOSE i \in 1 .. MaxOverlap :
        /\ invocations[i].pc # "idle"
        /\ i < MaxOverlap => invocations[i + 1].pc = "idle"

\* C37: when searches overlap, the results finally displayed are those of the
\* search that was started last: once every search that was started has
\* finished, restaurants is the list the last started one handed over.
C37_LastStartedSearchShown ==
    (/\ invocations[1].pc # "idle"
     /\ \A i \in 1 .. MaxOverlap : invocations[i].pc \in {"idle", "done"})
        => restaurants = invocations[LastStarted].shown

====
